---- MODULE Spec2Model ----
(***************************************************************************)
(* Room extraction from CAD drawings (extract_skeleton.py): the layer      *)
(* classifier, the raster room detector, the reconciler, the batch driver  *)
(* and the extraction of wall segments, modelled as state machines.        *)
(*                                                                          *)
(* A layer name is a sequence of one-character strings, so that keyword    *)
(* matching is substring search as in the Python source; a character       *)
(* outside ASCII is written by its code point, "u5899" for U+5899.          *)
(***************************************************************************)
EXTENDS Integers, Sequences, FiniteSets, TLC

VARIABLES
  layers_info,   \* identify_wall_layers: the layer table, in dict order
  cls,           \* identify_wall_layers: the five category lists
  lpc,           \* identify_wall_layers: the pass that runs next
  keep_layers,   \* identify_wall_layers: the returned keep-set
  overlap,       \* identify_wall_layers: the overlap lists that are logged
  scene,         \* identify_rooms: what the input image shows
  img,           \* identify_rooms: the wall pixels of the input image
  ir_args,       \* identify_rooms: img_size, min_room_area, max_room_area
  thresholds,    \* identify_rooms: min_room_area_pixels, max_room_area_pixels
  filled_img,    \* identify_rooms: the floor mask
  labeled_img,   \* identify_rooms: the pixels of each label
  edge_labels,   \* identify_rooms: labels on the image border
  prop_i,        \* identify_rooms: position of the loop over props
  raster_rooms,  \* identify_rooms: rooms
  filtered,      \* identify_rooms: area_filtered, edge_filtered, shape_filtered
  rpc,           \* identify_rooms: the step that runs next
  args,          \* main: the command line, --file and --convert-only
  dwg_files,     \* main: the drawings of the run, in listing order
  call_args,     \* extract_rooms_from_dwg: img_size, min_room_area, max_room_area
  file_i,        \* main: position of the loop over dwg_files
  pc,            \* main / extract_rooms_from_dwg: the step that runs next
  doc,           \* extract_rooms_from_dwg: preprocessed_doc
  ewr,           \* extract_walls_and_rooms: its locals at return
  extents_from_drawing,  \* extract_rooms_from_dwg: get_drawing_extents(...)
  final_extents, \* extract_rooms_from_dwg: final_extents
  results,       \* main: what each call returned
  wq_program,    \* wall extraction: the program whose loop runs
  wq_entities,   \* wall extraction: the entities the loop goes over
  wq_i,          \* wall extraction: position of the loop
  wq_walls,      \* wall extraction: walls (wall_lines), as built so far
  wq_pc,         \* wall extraction: the step that runs next
  cwi,           \* convert_walls_to_image: img_size, extents, the lines drawn
  wall_lines,    \* remove_doors_from_walls: wall_lines
  door_lines,    \* remove_doors_from_walls: door_lines
  w_i,           \* remove_doors_from_walls: position of `for w in wall_lines`
  d_i,           \* remove_doors_from_walls: position of `for d in door_lines`
  geom,          \* remove_doors_from_walls: geom
  result,        \* remove_doors_from_walls: result
  unioned,       \* associate_walls: unioned
  polys,         \* associate_walls: polys
  vpc            \* remove_doors_from_walls / associate_walls: the step that runs next

layerVars == <<layers_info, cls, lpc, keep_layers, overlap>>
rasterVars == <<scene, img, ir_args, thresholds, filled_img, labeled_img, edge_labels,
                prop_i, raster_rooms, filtered, rpc>>
pipeVars == <<args, dwg_files, call_args, file_i, pc, doc, ewr, extents_from_drawing,
              final_extents, results>>
wallVars == <<wq_program, wq_entities, wq_i, wq_walls, wq_pc, cwi>>
vecVars == <<wall_lines, door_lines, w_i, d_i, geom, result, unioned, polys, vpc>>
vars == <<layerVars, rasterVars, pipeVars, wallVars, vecVars>>

\* Python's None, for a value that is otherwise a tuple; an optional number n is <<n>>
None == <<>>

\* main without --file and without --convert-only
NoArgs == [file |-> FALSE, convert_only |-> FALSE]

(***************************************************************************)
(* Strings                                                                 *)
(***************************************************************************)
UpperChars == <<"A","B","C","D","E","F","G","H","I","J","K","L","M",
                "N","O","P","Q","R","S","T","U","V","W","X","Y","Z">>
LowerChars == <<"a","b","c","d","e","f","g","h","i","j","k","l","m",
                "n","o","p","q","r","s","t","u","v","w","x","y","z">>

\* str.lower() on one character
LowerChar(c) ==
  IF \E i \in 1..26 : UpperChars[i] = c
  THEN LowerChars[CHOOSE i \in 1..26 : UpperChars[i] = c]
  ELSE c

\* str.lower()
Lower(s) == [i \in 1..Len(s) |-> LowerChar(s[i])]

\* Python's `kw in s` on strings (the empty keyword is in every string)
Contains(kw, s) ==
  \E i \in 0..(Len(s) - Len(kw)) : \A j \in 1..Len(kw) : s[i + j] = kw[j]

\* any(keyword in name for keyword in keywords), case-sensitive
AnyIn(keywords, name) == \E k \in 1..Len(keywords) : Contains(keywords[k], name)

\* list helpers
InList(x, list) == \E i \in 1..Len(list) : list[i] = x
ListSet(list) == {list[i] : i \in 1..Len(list)}
\* list.remove(x): drops the first occurrence
RemoveFirst(list, x) ==
  IF ~InList(x, list) THEN list
  ELSE LET p == CHOOSE i \in 1..Len(list) :
                  list[i] = x /\ \A j \in 1..(i - 1) : list[j] # x
       IN [i \in 1..(Len(list) - 1) |-> IF i < p THEN list[i] ELSE list[i + 1]]

(***************************************************************************)
(* Keyword tables of identify_wall_layers and extract_walls_and_rooms      *)
(***************************************************************************)
wall_keywords ==
  <<
    <<"W", "A", "L", "L">>, <<"w", "a", "l", "l">>, <<"u5899">>, <<"u5899", "u4f53">>,
    <<"A", "-", "W", "A", "L", "L">>, <<"S", "-", "W", "A", "L", "L">>, <<"W", "A", "L", "X">>,
    <<"A", "R", "C", "H", "-", "W", "A", "L", "L">>, <<"u5899", "u7ebf">>, <<"Q", "A">>, <<"Q", "Z">>,
    <<"M", "Q">>, <<"Q", "I", "A", "N", "G">>, <<"B", "Z">>, <<"u9694", "u5899">>, <<"u7816", "u5899">>, <<"u67f1">>,
    <<"u5efa", "-", "u5899">>, <<"u7ed3", "u6784", "-", "u5899">>, <<"u5efa", "u7b51", "-", "u5899">>, <<"u526a", "u529b", "u5899">>,
    <<"u627f", "u91cd", "u5899">>, <<"u9694", "u5899", "-", "u7816", "u5899">>, <<"u9694", "u5899", "u2014", "u7816", "u5899">>,
    <<"I", "u2014", "u9694", "u5899">>
  >>

door_window_keywords ==
  <<
    <<"D", "O", "O", "R">>, <<"d", "o", "o", "r">>, <<"u95e8">>, <<"A", "-", "D", "O", "O", "R">>,
    <<"W", "I", "N", "D", "O", "W">>, <<"w", "i", "n", "d", "o", "w">>, <<"u7a97">>,
    <<"A", "-", "W", "I", "N", "D", "O", "W">>,
    <<"D", "O", "O", "R", "_", "W", "I", "N", "D", "O", "W">>,
    <<"O", "P", "E", "N", "I", "N", "G">>, <<"u5efa", "-", "u7a97">>, <<"u5efa", "-", "u95e8">>,
    <<"I", "u2014", "u5e73", "u9762", "u2014", "u95e8">>, <<"I", "-", "u5e73", "u9762", "-", "u7a97">>, <<"u95e8", "u7a97">>
  >>

room_keywords ==
  <<
    <<"R", "O", "O", "M">>, <<"R", "o", "o", "m">>, <<"r", "o", "o", "m">>, <<"u623f", "u95f4">>, <<"u623f">>,
    <<"S", "P", "A", "C", "E">>, <<"S", "p", "a", "c", "e">>, <<"s", "p", "a", "c", "e">>,
    <<"u7a7a", "u95f4">>, <<"A", "R", "E", "A">>, <<"A", "r", "e", "a">>, <<"a", "r", "e", "a">>,
    <<"u533a", "u57df">>, <<"A", "R", "C", "H", "-", "R", "O", "O", "M">>,
    <<"A", "-", "R", "O", "O", "M">>, <<"A", "-", "Z", "O", "N", "E">>
  >>

text_keywords ==
  <<
    <<"T", "E", "X", "T">>, <<"D", "I", "M">>, <<"T", "I", "T", "L", "E">>, <<"u6807", "u6ce8">>,
    <<"u6587", "u5b57">>, <<"u6807", "u9898">>, <<"u7f16", "u53f7">>, <<"u56fe", "u6846">>, <<"u56fe", "u4f8b">>,
    <<"A", "N", "N", "O", "T", "A", "T", "I", "O", "N">>, <<"L", "A", "B", "E", "L">>,
    <<"N", "U", "M", "B", "E", "R">>, <<"N", "O", "T", "E">>, <<"u5907", "u6ce8">>, <<"M", "A", "R", "K">>,
    <<"u7b26", "u53f7">>, <<"S", "Y", "M", "B", "O", "L">>
  >>

exclude_keywords ==
  <<
    <<"F", "U", "R", "N">>, <<"f", "u", "r", "n", "i", "t", "u", "r", "e">>, <<"u5bb6", "u5177">>,
    <<"D", "E", "S", "K">>, <<"T", "A", "B", "L", "E">>, <<"C", "H", "A", "I", "R">>,
    <<"B", "E", "D">>, <<"S", "O", "F", "A">>, <<"u684c">>, <<"u6905">>, <<"u5e8a">>, <<"u6c99", "u53d1">>, <<"u67dc">>,
    <<"u6a71">>, <<"u79fb", "u52a8", "u5bb6", "u5177">>, <<"u5ba4", "-", "u5bb6", "u5177">>, <<"M", "O", "V", "A", "B", "L", "E">>,
    <<"E", "Q", "U", "I", "P">>, <<"E", "Q", "U", "I", "P", "M", "E", "N", "T">>, <<"u8bbe", "u5907">>,
    <<"u6d01", "u5177">>, <<"u536b", "u751f", "u95f4">>, <<"u88c5", "u9970">>, <<"u706f">>, <<"u706f", "u5177">>, <<"u7535", "u6c14">>,
    <<"E", "L", "E", "C">>, <<"u6696", "u901a">>, <<"H", "V", "A", "C">>, <<"u7ed9", "u6392", "u6c34">>,
    <<"P", "L", "U", "M", "B", "I", "N", "G">>, <<"u7a7a", "u8c03">>, <<"A", "C">>, <<"A", "I", "R">>,
    <<"u5730", "u576a">>, <<"u8e0f", "u6b65">>, <<"u680f", "u6746">>, <<"u5206", "u9694">>, <<"u586b", "u5145">>, <<"u8f6e", "u5ed3", "u7ebf">>,
    <<"u9762", "u5c42", "u7ebf">>, <<"u5e73", "u9876">>, <<"C", "E", "I", "L", "I", "N", "G">>, <<"u5929", "u82b1">>,
    <<"F", "L", "O", "O", "R">>, <<"u5730", "u9762">>, <<"S", "T", "A", "I", "R">>, <<"u697c", "u68af">>,
    <<"R", "A", "I", "L", "I", "N", "G">>, <<"u6276", "u624b">>,
    <<"D", "E", "C", "O", "R", "A", "T", "I", "O", "N">>, <<"u88c5", "u9970">>,
    <<"F", "I", "N", "I", "S", "H", "I", "N", "G">>, <<"u9970", "u9762">>,
    <<"P", "A", "T", "T", "E", "R", "N">>, <<"u56fe", "u6848">>, <<"G", "R", "I", "D">>, <<"u8f74", "u7f51">>,
    <<"C", "O", "L", "U", "M", "N">>, <<"u67f1">>, <<"B", "E", "A", "M">>, <<"u6881">>,
    <<"L", "A", "N", "D", "S", "C", "A", "P", "E">>, <<"u666f", "u89c2">>,
    <<"V", "E", "G", "E", "T", "A", "T", "I", "O", "N">>, <<"u690d", "u88ab">>, <<"S", "I", "T", "E">>,
    <<"u573a", "u5730">>, <<"L", "I", "N", "E">>, <<"u7ebf", "u6761">>, <<"L", "A", "Y", "O", "U", "T">>,
    <<"u5e03", "u5c40">>
  >>

ewr_room_keywords ==
  <<
    <<"r", "o", "o", "m">>, <<"r", "o", "o", "m">>, <<"u623f", "u95f4">>, <<"u623f">>,
    <<"s", "p", "a", "c", "e">>, <<"s", "p", "a", "c", "e">>, <<"u7a7a", "u95f4">>, <<"a", "r", "e", "a">>,
    <<"a", "r", "e", "a">>, <<"u533a", "u57df">>, <<"a", "r", "c", "h", "-", "r", "o", "o", "m">>,
    <<"a", "-", "r", "o", "o", "m">>, <<"a", "-", "z", "o", "n", "e">>
  >>

furniture_equipment_keywords ==
  <<
    <<"u5bb6", "u5177">>, <<"F", "U", "R", "N">>, <<"f", "u", "r", "n", "i", "t", "u", "r", "e">>,
    <<"u8bbe", "u5907">>, <<"E", "Q", "U", "I", "P">>, <<"e", "q", "u", "i", "p", "m", "e", "n", "t">>,
    <<"u6807", "u6ce8">>, <<"T", "E", "X", "T">>, <<"t", "e", "x", "t">>, <<"A", "N", "N", "O">>,
    <<"a", "n", "n", "o", "t", "a", "t", "i", "o", "n">>, <<"u8f74", "u7f51">>, <<"G", "R", "I", "D">>,
    <<"g", "r", "i", "d">>, <<"u706f", "u5177">>, <<"L", "I", "G", "H", "T">>, <<"u536b", "u751f">>,
    <<"T", "O", "I", "L", "E", "T">>, <<"P", "L", "U", "M", "B">>, <<"u7ba1", "u9053">>,
    <<"P", "I", "P", "E">>, <<"u7535", "u6c14">>, <<"E", "L", "E", "C">>
  >>

\* the layer names of the model: "0", "A-WALL", "隔墙", "隔墙标注", "砖墙家具", "标注",
\* "门窗", "门编号", "房间", "家具", "X", "隔断", "Wall-Door"
LayerNames ==
  <<
    <<"0">>,
    <<"A", "-", "W", "A", "L", "L">>,
    <<"u9694", "u5899">>,
    <<"u9694", "u5899", "u6807", "u6ce8">>,
    <<"u7816", "u5899", "u5bb6", "u5177">>,
    <<"u6807", "u6ce8">>,
    <<"u95e8", "u7a97">>,
    <<"u95e8", "u7f16", "u53f7">>,
    <<"u623f", "u95f4">>,
    <<"u5bb6", "u5177">>,
    <<"X">>,
    <<"u9694", "u65ad">>,
    <<"W", "a", "l", "l", "-", "D", "o", "o", "r">>
  >>

LayerNameSet == ListSet(LayerNames)

(***************************************************************************)
(* Layer Classifier: identify_wall_layers                                  *)
(***************************************************************************)
EntityTypes == {"LINE", "LWPOLYLINE", "POLYLINE", "HATCH", "CIRCLE", "TEXT", "MTEXT"}

\* entity_types.get(t, 0); a type is a key of the histogram iff its count is > 0
NoEntities == [t \in EntityTypes |-> 0]
HasType(info, t) == info.entity_types[t] > 0

\* check_keywords(name, keywords)
check_keywords(name, keywords) ==
  \E k \in 1..Len(keywords) : Contains(Lower(keywords[k]), Lower(name))

\* the wall-priority substrings
ProtectedName(name) == Contains(<<"u9694", "u5899">>, name) \/ Contains(<<"u7816", "u5899">>, name)

is_text_layer(name) ==
  \/ check_keywords(name, text_keywords)
  \/ Contains(<<"u6587", "u5b57">>, name)
  \/ Contains(<<"u7f16", "u53f7">>, name)

\* polyline_count / line_count > 0.5, on integers
RoomRatioTest(info) ==
  LET line_count == info.entity_types["LINE"]
      polyline_count == info.entity_types["LWPOLYLINE"] + info.entity_types["POLYLINE"]
      hatch_count == info.entity_types["HATCH"]
  IN /\ (polyline_count > 5 \/ hatch_count > 0)
     /\ (line_count = 0 \/ 2 * polyline_count > line_count)

is_room_layer(name, info) ==
  \/ check_keywords(name, room_keywords)
  \/ /\ (HasType(info, "LWPOLYLINE") \/ HasType(info, "POLYLINE") \/ HasType(info, "HATCH"))
     /\ ~info.is_frozen
     /\ RoomRatioTest(info)

\* the name tests, tabulated once over the layer names of the model
IsText == [n \in LayerNameSet |-> is_text_layer(n)]
IsProtected == [n \in LayerNameSet |-> ProtectedName(n)]
IsWallName == [n \in LayerNameSet |-> ProtectedName(n) \/ check_keywords(n, wall_keywords)]
IsWallKeyword == [n \in LayerNameSet |-> check_keywords(n, wall_keywords)]
IsDoorName == [n \in LayerNameSet |-> check_keywords(n, door_window_keywords)]
IsRoomName == [n \in LayerNameSet |-> check_keywords(n, room_keywords)]
IsExcludeName == [n \in LayerNameSet |-> check_keywords(n, exclude_keywords)]
\* lines 984-985: the sixth keyword is '隔断', or '' when the name holds '墙'
IsSpecialName ==
  [n \in LayerNameSet |->
     AnyIn(<<<<"u706f">>, <<"u6d01", "u5177">>, <<"u680f", "u6746">>, <<"u8e0f", "u6b65">>, <<"u6696", "u901a">>,
             (IF ~Contains(<<"u5899">>, n) THEN <<"u9694", "u65ad">> ELSE <<>>),
             <<"u5bb6", "u5177">>>>, n)]

\* the ratio test of is_room_layer with the division evaluated for every histogram
RoomRatioRaisesUnguarded(info) ==
  LET line_count == info.entity_types["LINE"]
      polyline_count == info.entity_types["LWPOLYLINE"] + info.entity_types["POLYLINE"]
      hatch_count == info.entity_types["HATCH"]
  IN /\ (HasType(info, "LWPOLYLINE") \/ HasType(info, "POLYLINE") \/ HasType(info, "HATCH"))
     /\ ~info.is_frozen
     /\ (polyline_count > 5 \/ hatch_count > 0)
     /\ line_count = 0

\* is_room_layer raises ZeroDivisionError: polyline_count / line_count is evaluated,
\* which the `or` allows only when line_count == 0 is false, with line_count zero
RoomRatioRaises(info) ==
  LET line_count == info.entity_types["LINE"]
      polyline_count == info.entity_types["LWPOLYLINE"] + info.entity_types["POLYLINE"]
      hatch_count == info.entity_types["HATCH"]
  IN /\ (HasType(info, "LWPOLYLINE") \/ HasType(info, "POLYLINE") \/ HasType(info, "HATCH"))
     /\ ~info.is_frozen
     /\ (polyline_count > 5 \/ hatch_count > 0)
     /\ ~(line_count = 0)
     /\ line_count = 0

\* the first loop raises: is_room_layer is called for every layer that is not a
\* text layer, and reads the histogram when the name holds no room keyword
PreprocessRaises(L) ==
  \E i \in 1..Len(L) :
    ~IsText[L[i].name] /\ ~IsRoomName[L[i].name] /\ RoomRatioRaises(L[i].info)

IsRoomLayer(name, info) ==
  \/ IsRoomName[name]
  \/ /\ (HasType(info, "LWPOLYLINE") \/ HasType(info, "POLYLINE") \/ HasType(info, "HATCH"))
     /\ ~info.is_frozen
     /\ RoomRatioTest(info)

EmptyCls ==
  [wall_layers |-> <<>>, door_window_layers |-> <<>>, room_layers |-> <<>>,
   excluded_layers |-> <<>>, text_layers |-> <<>>]

\* PreprocessPass where a text layer is recorded in text_layers only
RECURSIVE PreprocessPassTextOnly(_, _, _)
PreprocessPassTextOnly(L, i, c) ==
  IF i > Len(L) THEN c
  ELSE LET name == L[i].name
           info == L[i].info
       IN IF IsText[name]
          THEN PreprocessPassTextOnly(L, i + 1, [c EXCEPT !.text_layers = Append(@, name)])
          ELSE IF IsRoomLayer(name, info)
          THEN PreprocessPassTextOnly(L, i + 1, [c EXCEPT !.room_layers = Append(@, name)])
          ELSE PreprocessPassTextOnly(L, i + 1, c)

\* first loop: text layers and room layers
RECURSIVE PreprocessPass(_, _, _)
PreprocessPass(L, i, c) ==
  IF i > Len(L) THEN c
  ELSE LET name == L[i].name
           info == L[i].info
       IN IF IsText[name]
          THEN PreprocessPass(L, i + 1,
                 [c EXCEPT !.text_layers = Append(@, name),
                           !.excluded_layers = Append(@, name)])
          ELSE IF IsRoomLayer(name, info)
          THEN PreprocessPass(L, i + 1, [c EXCEPT !.room_layers = Append(@, name)])
          ELSE PreprocessPass(L, i + 1, c)

\* StructuralWall with the bounds included: 20 lines, or a ratio of 10, suffice
StructuralWallInclusive(info) ==
  LET line_count == info.entity_types["LINE"] + info.entity_types["LWPOLYLINE"]
                      + info.entity_types["POLYLINE"]
      text_count == info.entity_types["TEXT"] + info.entity_types["MTEXT"]
  IN /\ line_count >= 20
     /\ (text_count = 0 \/ line_count >= 10 * text_count)
     /\ info.is_on
     /\ ~info.is_frozen

\* line_count / text_count > 10, on integers
StructuralWall(info) ==
  LET line_count == info.entity_types["LINE"] + info.entity_types["LWPOLYLINE"]
                      + info.entity_types["POLYLINE"]
      text_count == info.entity_types["TEXT"] + info.entity_types["MTEXT"]
  IN /\ line_count > 20
     /\ (text_count = 0 \/ line_count > 10 * text_count)
     /\ info.is_on
     /\ ~info.is_frozen

\* MainPass with the door-window test and the exclusion test ahead of the wall test
RECURSIVE MainPassWallLast(_, _, _)
MainPassWallLast(L, i, c) ==
  IF i > Len(L) THEN c
  ELSE LET name == L[i].name
           info == L[i].info
       IN IF InList(name, c.text_layers)
          THEN MainPassWallLast(L, i + 1, c)
          ELSE IF IsDoorName[name] /\ ~IsText[name]
          THEN MainPassWallLast(L, i + 1, [c EXCEPT !.door_window_layers = Append(@, name)])
          ELSE IF IsExcludeName[name] /\ ~IsWallKeyword[name]
          THEN MainPassWallLast(L, i + 1, [c EXCEPT !.excluded_layers = Append(@, name)])
          ELSE IF IsWallName[name]
          THEN MainPassWallLast(L, i + 1, [c EXCEPT !.wall_layers = Append(@, name)])
          ELSE IF IsSpecialName[name]
          THEN MainPassWallLast(L, i + 1, [c EXCEPT !.excluded_layers = Append(@, name)])
          ELSE IF StructuralWall(info)
          THEN MainPassWallLast(L, i + 1, [c EXCEPT !.wall_layers = Append(@, name)])
          ELSE MainPassWallLast(L, i + 1, [c EXCEPT !.excluded_layers = Append(@, name)])

\* the structural fallback raises ZeroDivisionError: line_count / text_count is
\* evaluated, which the `or` allows only when text_count == 0 is false, with
\* text_count zero
StructuralRaises(info) ==
  LET line_count == info.entity_types["LINE"] + info.entity_types["LWPOLYLINE"]
                      + info.entity_types["POLYLINE"]
      text_count == info.entity_types["TEXT"] + info.entity_types["MTEXT"]
  IN /\ line_count > 20
     /\ ~(text_count = 0)
     /\ text_count = 0

\* the second loop raises: the fallback is reached by the layers no name test took
MainRaises(L, c) ==
  \E i \in 1..Len(L) :
    LET name == L[i].name
    IN /\ ~InList(name, c.text_layers)
       /\ ~IsWallName[name]
       /\ ~(IsDoorName[name] /\ ~IsText[name])
       /\ ~(IsExcludeName[name] /\ ~IsWallKeyword[name])
       /\ ~IsSpecialName[name]
       /\ StructuralRaises(L[i].info)

\* MainPass that does not skip the layers already in text_layers
RECURSIVE MainPassNoTextSkip(_, _, _)
MainPassNoTextSkip(L, i, c) ==
  IF i > Len(L) THEN c
  ELSE LET name == L[i].name
           info == L[i].info
       IN IF IsWallName[name]
          THEN MainPassNoTextSkip(L, i + 1, [c EXCEPT !.wall_layers = Append(@, name)])
          ELSE IF IsDoorName[name] /\ ~IsText[name]
          THEN MainPassNoTextSkip(L, i + 1, [c EXCEPT !.door_window_layers = Append(@, name)])
          ELSE IF IsExcludeName[name] /\ ~IsWallKeyword[name]
          THEN MainPassNoTextSkip(L, i + 1, [c EXCEPT !.excluded_layers = Append(@, name)])
          ELSE IF IsSpecialName[name]
          THEN MainPassNoTextSkip(L, i + 1, [c EXCEPT !.excluded_layers = Append(@, name)])
          ELSE IF StructuralWall(info)
          THEN MainPassNoTextSkip(L, i + 1, [c EXCEPT !.wall_layers = Append(@, name)])
          ELSE MainPassNoTextSkip(L, i + 1, [c EXCEPT !.excluded_layers = Append(@, name)])

\* second loop: walls, doors and windows, exclusions, structural fallback
RECURSIVE MainPass(_, _, _)
MainPass(L, i, c) ==
  IF i > Len(L) THEN c
  ELSE LET name == L[i].name
           info == L[i].info
       IN IF InList(name, c.text_layers)
          THEN MainPass(L, i + 1, c)
          ELSE IF IsWallName[name]
          THEN MainPass(L, i + 1, [c EXCEPT !.wall_layers = Append(@, name)])
          ELSE IF IsDoorName[name] /\ ~IsText[name]
          THEN MainPass(L, i + 1, [c EXCEPT !.door_window_layers = Append(@, name)])
          ELSE IF IsExcludeName[name] /\ ~IsWallKeyword[name]
          THEN MainPass(L, i + 1, [c EXCEPT !.excluded_layers = Append(@, name)])
          ELSE IF IsSpecialName[name]
          THEN MainPass(L, i + 1, [c EXCEPT !.excluded_layers = Append(@, name)])
          ELSE IF StructuralWall(info)
          THEN MainPass(L, i + 1, [c EXCEPT !.wall_layers = Append(@, name)])
          ELSE MainPass(L, i + 1, [c EXCEPT !.excluded_layers = Append(@, name)])

\* third loop, over a copy of excluded_layers: protected names return to wall
RECURSIVE RepairPass(_, _, _)
RepairPass(snapshot, i, c) ==
  IF i > Len(snapshot) THEN c
  ELSE LET name == snapshot[i]
       IN IF IsProtected[name]
          THEN LET c1 == [c EXCEPT !.excluded_layers = RemoveFirst(@, name)]
               IN RepairPass(snapshot, i + 1,
                    IF ~InList(name, c1.wall_layers)
                    THEN [c1 EXCEPT !.wall_layers = Append(@, name)]
                    ELSE c1)
          ELSE RepairPass(snapshot, i + 1, c)

\* CleanWalls without the text-layer test of line 1013
RECURSIVE CleanWallsNoTextTest(_, _, _)
CleanWallsNoTextTest(snapshot, i, c) ==
  IF i > Len(snapshot) THEN c
  ELSE LET name == snapshot[i]
       IN IF InList(name, c.excluded_layers) /\ ~IsProtected[name]
          THEN LET c1 == [c EXCEPT !.wall_layers = RemoveFirst(@, name)]
               IN CleanWallsNoTextTest(snapshot, i + 1,
                    IF ~InList(name, c1.excluded_layers)
                    THEN [c1 EXCEPT !.excluded_layers = Append(@, name)]
                    ELSE c1)
          ELSE CleanWallsNoTextTest(snapshot, i + 1, c)

\* CleanWalls where a demoted layer is not appended to excluded_layers
RECURSIVE CleanWallsNoAppend(_, _, _)
CleanWallsNoAppend(snapshot, i, c) ==
  IF i > Len(snapshot) THEN c
  ELSE LET name == snapshot[i]
       IN IF IsText[name] \/ (InList(name, c.excluded_layers) /\ ~IsProtected[name])
          THEN CleanWallsNoAppend(snapshot, i + 1,
                 [c EXCEPT !.wall_layers = RemoveFirst(@, name)])
          ELSE CleanWallsNoAppend(snapshot, i + 1, c)

\* fourth step, over a copy of wall_layers
RECURSIVE CleanWalls(_, _, _)
CleanWalls(snapshot, i, c) ==
  IF i > Len(snapshot) THEN c
  ELSE LET name == snapshot[i]
       IN IF IsText[name] \/ (InList(name, c.excluded_layers) /\ ~IsProtected[name])
          THEN LET c1 == [c EXCEPT !.wall_layers = RemoveFirst(@, name)]
               IN CleanWalls(snapshot, i + 1,
                    IF ~InList(name, c1.excluded_layers)
                    THEN [c1 EXCEPT !.excluded_layers = Append(@, name)]
                    ELSE c1)
          ELSE CleanWalls(snapshot, i + 1, c)

\* fourth step, over a copy of door_window_layers
RECURSIVE CleanDoors(_, _, _)
CleanDoors(snapshot, i, c) ==
  IF i > Len(snapshot) THEN c
  ELSE LET name == snapshot[i]
       IN IF InList(name, c.excluded_layers)
          THEN CleanDoors(snapshot, i + 1,
                 [c EXCEPT !.door_window_layers = RemoveFirst(@, name)])
          ELSE IF IsText[name]
          THEN LET c1 == [c EXCEPT !.door_window_layers = RemoveFirst(@, name)]
               IN CleanDoors(snapshot, i + 1,
                    IF ~InList(name, c1.excluded_layers)
                    THEN [c1 EXCEPT !.excluded_layers = Append(@, name)]
                    ELSE c1)
          ELSE CleanDoors(snapshot, i + 1, c)

ConsistencyPass(c) ==
  LET c1 == CleanWalls(c.wall_layers, 1, c)
  IN CleanDoors(c1.door_window_layers, 1, c1)

\* [layer for layer in room_layers if layer in other]
RoomOverlap(c, other) == SelectSeq(c.room_layers, LAMBDA layer : InList(layer, other))

NoOverlap == [wall_room_overlap |-> <<>>, door_room_overlap |-> <<>>]

\* Overlap where only the overlap with the wall list is collected
OverlapWallOnly(c) ==
  [wall_room_overlap |-> RoomOverlap(c, c.wall_layers), door_room_overlap |-> <<>>]

\* fifth step: the two overlap lists, each logged when it is not empty
Overlap(c) ==
  [wall_room_overlap |-> RoomOverlap(c, c.wall_layers),
   door_room_overlap |-> RoomOverlap(c, c.door_window_layers)]

\* AllLayers with the default layer "0" always added
AllLayersWithZero(c) == ListSet(c.wall_layers) \cup ListSet(c.door_window_layers) \cup {<<"0">>}

\* list(set(wall_layers + door_window_layers)): the order is that of a set
AllLayers(c) == ListSet(c.wall_layers) \cup ListSet(c.door_window_layers)

\* the category lists at the end of identify_wall_layers
Classify(L) ==
  LET c1 == PreprocessPass(L, 1, EmptyCls)
      c2 == MainPass(L, 1, c1)
      c3 == RepairPass(c2.excluded_layers, 1, c2)
  IN ConsistencyPass(c3)

identify_wall_layers(L) == AllLayers(Classify(L))

(***************************************************************************)
(* The classifier as a state machine, one action per pass                  *)
(***************************************************************************)
MaxLayers == 2

EntityCounts(line, lw, hatch, text) ==
  [t \in EntityTypes |->
     CASE t = "LINE" -> line
       [] t = "LWPOLYLINE" -> lw
       [] t = "HATCH" -> hatch
       [] t = "TEXT" -> text
       [] OTHER -> 0]

\* layer records as analyze_layers builds them
InfoChoices ==
  { [entity_types |-> EntityCounts(30, 0, 0, 0), is_on |-> TRUE, is_frozen |-> FALSE],
    [entity_types |-> EntityCounts(21, 0, 0, 0), is_on |-> TRUE, is_frozen |-> FALSE],
    [entity_types |-> EntityCounts(20, 0, 0, 0), is_on |-> TRUE, is_frozen |-> FALSE],
    [entity_types |-> EntityCounts(30, 0, 0, 3), is_on |-> TRUE, is_frozen |-> FALSE],
    [entity_types |-> EntityCounts(30, 0, 0, 0), is_on |-> TRUE, is_frozen |-> TRUE],
    [entity_types |-> EntityCounts(30, 0, 0, 0), is_on |-> FALSE, is_frozen |-> FALSE],
    [entity_types |-> EntityCounts(0, 6, 0, 0), is_on |-> TRUE, is_frozen |-> FALSE],
    [entity_types |-> NoEntities, is_on |-> TRUE, is_frozen |-> FALSE] }

\* the layer table of the names LayerNames[idx[1]], ..., with the records inf[1], ...
LayerTable(idx, inf) ==
  [i \in DOMAIN idx |-> [name |-> LayerNames[idx[i]], info |-> inf[i]]]

\* idx picks distinct names, in the order of LayerNames
Increasing(idx) == \A i \in DOMAIN idx : \A j \in DOMAIN idx : i < j => idx[i] < idx[j]

BlankScene ==
  [kind |-> "blank", r0 |-> 0, c0 |-> 0, ih |-> 0, iw |-> 0, thick |-> 0, gap |-> 0]

RasterIdle ==
  /\ scene = BlankScene
  /\ img = {}
  /\ ir_args = [img_size |-> 0, min_room_area |-> 0, max_room_area |-> None]
  /\ thresholds = [min |-> 0, max |-> 0]
  /\ filled_img = {}
  /\ labeled_img = <<>>
  /\ edge_labels = {}
  /\ prop_i = 0
  /\ raster_rooms = <<>>
  /\ filtered = [area |-> 0, edge |-> 0, shape |-> 0]
  /\ rpc = "idle"

NoDoc == [layers |-> <<>>, entities |-> <<>>]

EwrIdle ==
  [walls |-> <<>>, rooms_from_layers |-> <<>>, extents_from_rooms |-> None,
   extents_from_walls |-> None, rooms_from_walls |-> <<>>, all_rooms |-> <<>>,
   final_extents |-> None,
   ir_args |-> [img_size |-> 0, min_room_area |-> 0, max_room_area |-> None],
   thresholds |-> [min |-> 0, max |-> 0], keep_layers |-> {}]

PipeIdle ==
  /\ args = NoArgs
  /\ dwg_files = <<>>
  /\ call_args = [img_size |-> 0, min_room_area |-> 0, max_room_area |-> None]
  /\ file_i = 0
  /\ pc = "idle"
  /\ doc = NoDoc
  /\ ewr = EwrIdle
  /\ extents_from_drawing = None
  /\ final_extents = None
  /\ results = <<>>

VecIdle ==
  /\ wall_lines = <<>>
  /\ door_lines = <<>>
  /\ w_i = 0
  /\ d_i = 0
  /\ geom = {}
  /\ result = <<>>
  /\ unioned = {}
  /\ polys = {}
  /\ vpc = "idle"

WallsIdle ==
  /\ wq_program = "idle"
  /\ wq_entities = <<>>
  /\ wq_i = 0
  /\ wq_walls = <<>>
  /\ wq_pc = "idle"
  /\ cwi = None

LayersIdle ==
  /\ layers_info = <<>>
  /\ cls = EmptyCls
  /\ lpc = "idle"
  /\ keep_layers = {}
  /\ overlap = NoOverlap

\* layer tables: up to MaxLayers distinct names, in the order of LayerNames
InitLayers ==
  /\ \E n \in 1..MaxLayers :
       \E idx \in [1..n -> 1..Len(LayerNames)] :
         /\ Increasing(idx)
         /\ \E inf \in [1..n -> InfoChoices] : layers_info = LayerTable(idx, inf)
  /\ cls = EmptyCls
  /\ lpc = "preprocess"
  /\ keep_layers = {}
  /\ overlap = NoOverlap
  /\ RasterIdle
  /\ PipeIdle
  /\ WallsIdle
  /\ VecIdle

DoPreprocessPass ==
  /\ lpc = "preprocess"
  /\ cls' = IF PreprocessRaises(layers_info) THEN cls ELSE PreprocessPass(layers_info, 1, cls)
  /\ lpc' = IF PreprocessRaises(layers_info) THEN "raised" ELSE "main"
  /\ UNCHANGED <<layers_info, keep_layers, overlap>>
  /\ UNCHANGED <<rasterVars, pipeVars, wallVars, vecVars>>

DoMainPass ==
  /\ lpc = "main"
  /\ cls' = IF MainRaises(layers_info, cls) THEN cls ELSE MainPass(layers_info, 1, cls)
  /\ lpc' = IF MainRaises(layers_info, cls) THEN "raised" ELSE "repair"
  /\ UNCHANGED <<layers_info, keep_layers, overlap>>
  /\ UNCHANGED <<rasterVars, pipeVars, wallVars, vecVars>>

DoRepairPass ==
  /\ lpc = "repair"
  /\ cls' = RepairPass(cls.excluded_layers, 1, cls)
  /\ lpc' = "consistency"
  /\ UNCHANGED <<layers_info, keep_layers, overlap>>
  /\ UNCHANGED <<rasterVars, pipeVars, wallVars, vecVars>>

DoConsistencyPass ==
  /\ lpc = "consistency"
  /\ cls' = ConsistencyPass(cls)
  /\ lpc' = "return"
  /\ UNCHANGED <<layers_info, keep_layers, overlap>>
  /\ UNCHANGED <<rasterVars, pipeVars, wallVars, vecVars>>

DoReturn ==
  /\ lpc = "return"
  /\ overlap' = Overlap(cls)
  /\ keep_layers' = AllLayers(cls)
  /\ lpc' = "done"
  /\ UNCHANGED <<layers_info, cls>>
  /\ UNCHANGED <<rasterVars, pipeVars, wallVars, vecVars>>

NextLayers ==
  \/ DoPreprocessPass
  \/ DoMainPass
  \/ DoRepairPass
  \/ DoConsistencyPass
  \/ DoReturn

SpecLayers == InitLayers /\ [][NextLayers]_vars

\* a call that has started runs on: nothing outside the function stops it
SpecLayersFair == SpecLayers /\ WF_vars(NextLayers)

LayerOf(name) == CHOOSE i \in 1..Len(layers_info) : layers_info[i].name = name
TableNames == {layers_info[i].name : i \in 1..Len(layers_info)}

\* C10 (as claimed): every layer whose name contains "隔墙" or "砖墙" ends in the
\* wall list and in the keep-set, and not in excluded.
C10_ProtectedAlwaysWall ==
  lpc = "done" =>
    \A n \in TableNames :
      IsProtected[n] =>
        /\ InList(n, cls.wall_layers)
        /\ n \in keep_layers
        /\ ~InList(n, cls.excluded_layers)

\* C10 (amended): every layer whose name contains "隔墙" or "砖墙" and is not a text
\* layer ends in the wall list and in the keep-set, and not in excluded; one that
\* is also a text layer ends in excluded and outside the keep-set.
C10_ProtectedNonTextWall ==
  lpc = "done" =>
    \A n \in TableNames :
      IsProtected[n] =>
        IF IsText[n]
        THEN /\ InList(n, cls.excluded_layers)
             /\ ~InList(n, cls.wall_layers)
             /\ n \notin keep_layers
        ELSE /\ InList(n, cls.wall_layers)
             /\ n \in keep_layers
             /\ ~InList(n, cls.excluded_layers)

\* a protected, non-text layer whose name also matches an exclusion keyword has
\* been classified
C10_Witness ==
  /\ lpc = "done"
  /\ \E n \in TableNames :
       IsProtected[n] /\ ~IsText[n] /\ IsExcludeName[n] /\ n \in keep_layers

\* C11: every layer whose name matches a text keyword ends in the excluded list and
\* in none of the wall list, the door-window list and the keep-set, whatever its
\* entity histogram, its flags and the other keywords of its name.
C11_TextAlwaysExcluded ==
  lpc = "done" =>
    \A n \in TableNames :
      IsText[n] =>
        /\ InList(n, cls.text_layers)
        /\ InList(n, cls.excluded_layers)
        /\ ~InList(n, cls.wall_layers)
        /\ ~InList(n, cls.door_window_layers)
        /\ n \notin keep_layers

\* a text layer whose name also holds a wall-priority substring, and one whose name
\* also holds a door keyword, both with the histogram of a structural wall, have
\* been classified
C11_Witness ==
  /\ lpc = "done"
  /\ \E n \in TableNames :
       IsText[n] /\ IsProtected[n] /\ StructuralWall(layers_info[LayerOf(n)].info)
  /\ \E n \in TableNames :
       IsText[n] /\ IsDoorName[n] /\ StructuralWall(layers_info[LayerOf(n)].info)

\* C12: every layer that is not a text layer and whose name holds a wall keyword,
\* in any letter case, ends in the wall list and in the keep-set, whatever its
\* entity counts and flags and whether or not its name also holds a door-window
\* or an exclusion keyword.
C12_WallKeywordIsWall ==
  lpc = "done" =>
    \A n \in TableNames :
      (IsWallKeyword[n] /\ ~IsText[n]) =>
        /\ InList(n, cls.wall_layers)
        /\ n \in keep_layers
        /\ ~InList(n, cls.door_window_layers)
        /\ ~InList(n, cls.excluded_layers)

\* two wall-keyword layers that are off or frozen or without entities have been
\* classified: one matches a wall keyword only after lower-casing and also holds a
\* door keyword, the other also holds an exclusion keyword
C12_Witness ==
  /\ lpc = "done"
  /\ \E n \in TableNames :
       /\ IsWallKeyword[n] /\ ~AnyIn(wall_keywords, n) /\ IsDoorName[n]
       /\ ~StructuralWall(layers_info[LayerOf(n)].info)
       /\ InList(n, cls.wall_layers)
  /\ \E n \in TableNames :
       /\ IsWallKeyword[n] /\ IsExcludeName[n] /\ ~IsText[n]
       /\ ~layers_info[LayerOf(n)].info.is_on
       /\ InList(n, cls.wall_layers)

\* the number of entries of a list that equal x
Count(x, list) == Cardinality({i \in 1..Len(list) : list[i] = x})

CategoryNames ==
  {"wall_layers", "door_window_layers", "room_layers", "text_layers", "excluded_layers"}

\* C13 (as claimed): after identify_wall_layers every layer of the mapping is in
\* exactly one of the five lists wall, door_window, room, text, excluded.
C13_ExactlyOneOfFive ==
  lpc = "done" =>
    \A n \in TableNames :
      Cardinality({k \in CategoryNames : InList(n, cls[k])}) = 1

\* C13 (amended): after identify_wall_layers every layer of the mapping is, once,
\* in exactly one of the three lists wall, door_window, excluded; the text list
\* holds exactly the text layers, which are all excluded; the room list holds
\* exactly the layers that are not text layers and pass the room test, whichever
\* of the three lists they are in.
C13_ExactlyOneOfThree ==
  lpc = "done" =>
    \A n \in TableNames :
      /\ Count(n, cls.wall_layers) + Count(n, cls.door_window_layers)
            + Count(n, cls.excluded_layers) = 1
      /\ Count(n, cls.text_layers) = (IF IsText[n] THEN 1 ELSE 0)
      /\ IsText[n] => InList(n, cls.excluded_layers)
      /\ Count(n, cls.room_layers)
            = (IF ~IsText[n] /\ IsRoomLayer(n, layers_info[LayerOf(n)].info) THEN 1 ELSE 0)

\* a layer that is in the room list and in the wall list, and a text layer with a
\* wall-priority name, have been classified
C13_Witness ==
  /\ lpc = "done"
  /\ \E n \in TableNames : InList(n, cls.room_layers) /\ InList(n, cls.wall_layers)
  /\ \E n \in TableNames : IsText[n] /\ IsProtected[n] /\ InList(n, cls.excluded_layers)

\* C14: a layer that satisfies the room test and is classified as wall or as
\* door-window is in the room list and in the wall or door-window list, is in the
\* keep-set, and is in the overlap list that is logged for that category.
C14_OverlapKeptAndReported ==
  lpc = "done" =>
    \A n \in TableNames :
      LET isRoom == IsRoomLayer(n, layers_info[LayerOf(n)].info)
      IN /\ (isRoom /\ InList(n, cls.wall_layers)) =>
              /\ InList(n, cls.room_layers)
              /\ n \in keep_layers
              /\ InList(n, overlap.wall_room_overlap)
         /\ (isRoom /\ InList(n, cls.door_window_layers)) =>
              /\ InList(n, cls.room_layers)
              /\ n \in keep_layers
              /\ InList(n, overlap.door_room_overlap)

\* a wall layer that passes the room test by its polyline ratio and a door-window
\* layer that passes it have been classified
C14_Witness ==
  /\ lpc = "done"
  /\ \E n \in TableNames :
       /\ ~IsRoomName[n]
       /\ IsRoomLayer(n, layers_info[LayerOf(n)].info)
       /\ InList(n, cls.wall_layers)
  /\ \E n \in TableNames :
       /\ IsRoomLayer(n, layers_info[LayerOf(n)].info)
       /\ InList(n, cls.door_window_layers)

\* C15 (as claimed): the value returned by identify_wall_layers is exactly the
\* union of the wall list and the door-window list and always contains "0".
C15_KeepSetHasLayer0 ==
  lpc = "done" =>
    /\ keep_layers = ListSet(cls.wall_layers) \cup ListSet(cls.door_window_layers)
    /\ <<"0">> \in keep_layers

\* C15 (amended): the value returned by identify_wall_layers is exactly the union
\* of the wall list and the door-window list; it contains "0" if and only if layer
\* "0" is in the mapping and is itself classified as wall, which happens exactly
\* when its histogram and flags pass the structural fallback.
C15_KeepSetIsWallAndDoor ==
  lpc = "done" =>
    /\ keep_layers = ListSet(cls.wall_layers) \cup ListSet(cls.door_window_layers)
    /\ <<"0">> \in keep_layers <=>
         /\ <<"0">> \in TableNames
         /\ InList(<<"0">>, cls.wall_layers)
         /\ StructuralWall(layers_info[LayerOf(<<"0">>)].info)

\* layer "0" has been classified as excluded next to a door-window layer, so the
\* returned value is not empty and lacks "0"
C15_Witness ==
  /\ lpc = "done"
  /\ InList(<<"0">>, cls.excluded_layers)
  /\ cls.door_window_layers # <<>>
  /\ keep_layers = ListSet(cls.door_window_layers)

\* the line count of a layer record
LineCount(info) ==
  info.entity_types["LINE"] + info.entity_types["LWPOLYLINE"] + info.entity_types["POLYLINE"]

\* the text count of a layer record
TextCount(info) == info.entity_types["TEXT"] + info.entity_types["MTEXT"]

\* the name matches no text, wall, door-window or exclusion keyword
NoKeyword(n) == ~IsText[n] /\ ~IsWallKeyword[n] /\ ~IsDoorName[n] /\ ~IsExcludeName[n]

\* C16 (as claimed): a layer whose name matches no text, wall, door-window or
\* exclusion keyword is classified as wall if and only if it has more than 20
\* lines, no text or more than 10 lines per text, and is on and not frozen;
\* otherwise it is classified as excluded.
C16_FallbackByKeywordsOnly ==
  lpc = "done" =>
    \A n \in TableNames :
      NoKeyword(n) =>
        LET info == layers_info[LayerOf(n)].info
            structural ==
              /\ LineCount(info) > 20
              /\ (TextCount(info) = 0 \/ LineCount(info) > 10 * TextCount(info))
              /\ info.is_on /\ ~info.is_frozen
        IN /\ InList(n, cls.wall_layers) <=> structural
           /\ InList(n, cls.excluded_layers) <=> ~structural

\* C16 (amended): a layer whose name matches no text, wall, door-window or
\* exclusion keyword and holds none of the special-case substrings is classified
\* as wall if and only if it has more than 20 lines, no text or more than 10
\* lines per text, and is on and not frozen, and otherwise as excluded; a layer
\* whose name matches none of the keywords and holds a special-case substring
\* is excluded whatever its histogram.
C16_FallbackAfterSpecialCases ==
  lpc = "done" =>
    \A n \in TableNames :
      NoKeyword(n) =>
        LET info == layers_info[LayerOf(n)].info
            structural ==
              /\ LineCount(info) > 20
              /\ (TextCount(info) = 0 \/ LineCount(info) > 10 * TextCount(info))
              /\ info.is_on /\ ~info.is_frozen
        IN IF IsSpecialName[n]
           THEN InList(n, cls.excluded_layers) /\ ~InList(n, cls.wall_layers)
           ELSE /\ InList(n, cls.wall_layers) <=> structural
                /\ InList(n, cls.excluded_layers) <=> ~structural

\* two layers without keyword or special-case substring have been classified: one
\* with exactly 20 lines is excluded, one with 21 lines is a wall
C16_Witness ==
  /\ lpc = "done"
  /\ \E n \in TableNames :
       /\ NoKeyword(n) /\ ~IsSpecialName[n]
       /\ LineCount(layers_info[LayerOf(n)].info) = 20
       /\ layers_info[LayerOf(n)].info.is_on
       /\ InList(n, cls.excluded_layers)
  /\ \E n \in TableNames :
       /\ NoKeyword(n) /\ ~IsSpecialName[n]
       /\ LineCount(layers_info[LayerOf(n)].info) = 21
       /\ InList(n, cls.wall_layers)

\* C17: identify_wall_layers never raises and returns, whatever the histograms
\* (zero lines, zero polylines, zero texts, no entries at all); and a layer that
\* matches no keyword and fails the structural rule ends in excluded.
C17_ClassifierNeverFails ==
  /\ [](lpc # "raised")
  /\ <>(lpc = "done")
  /\ [](lpc = "done" =>
         \A n \in TableNames :
           LET info == layers_info[LayerOf(n)].info
           IN (/\ NoKeyword(n)
               /\ ~(/\ LineCount(info) > 20
                     /\ (TextCount(info) = 0 \/ LineCount(info) > 10 * TextCount(info))
                     /\ info.is_on /\ ~info.is_frozen))
              => InList(n, cls.excluded_layers))

\* the call has returned for a table with a layer of polylines and no LINE, which
\* reaches the ratio test of is_room_layer, and a layer without any entity, which
\* reaches the structural fallback and is excluded
C17_Witness ==
  /\ lpc = "done"
  /\ \E n \in TableNames :
       LET info == layers_info[LayerOf(n)].info
       IN /\ NoKeyword(n) /\ ~IsRoomName[n]
          /\ info.entity_types["LINE"] = 0 /\ info.entity_types["LWPOLYLINE"] > 5
          /\ InList(n, cls.room_layers)
  /\ \E n \in TableNames :
       /\ NoKeyword(n) /\ ~IsSpecialName[n]
       /\ layers_info[LayerOf(n)].info.entity_types = NoEntities
       /\ InList(n, cls.excluded_layers)

\* C26: after identify_wall_layers the wall list, the door-window list and the
\* excluded list are pairwise disjoint, none of them holds a layer twice, and no
\* layer of the wall list or of the door-window list is a text layer.
C26_ListsConsistent ==
  lpc = "done" =>
    /\ ListSet(cls.wall_layers) \cap ListSet(cls.door_window_layers) = {}
    /\ ListSet(cls.wall_layers) \cap ListSet(cls.excluded_layers) = {}
    /\ ListSet(cls.door_window_layers) \cap ListSet(cls.excluded_layers) = {}
    /\ Cardinality(ListSet(cls.wall_layers)) = Len(cls.wall_layers)
    /\ Cardinality(ListSet(cls.door_window_layers)) = Len(cls.door_window_layers)
    /\ Cardinality(ListSet(cls.excluded_layers)) = Len(cls.excluded_layers)
    /\ \A n \in keep_layers : ~IsText[n]

\* the repair pass and the consistency pass have both acted: a text layer with a
\* wall-priority name is excluded, next to a wall layer that holds an exclusion
\* keyword
C26_Witness ==
  /\ lpc = "done"
  /\ \E n \in ListSet(cls.excluded_layers) : IsText[n] /\ IsProtected[n]
  /\ \E n \in ListSet(cls.wall_layers) : IsExcludeName[n]

(***************************************************************************)
(* Raster Room Detector: identify_rooms                                    *)
(*                                                                         *)
(* An image is the set of its wall pixels (img > 0); a pixel is <<row,     *)
(* column>>.  The images of the model are far smaller than the 1024 or     *)
(* 2000 pixels of the program; for the sizes and whole percentages used,   *)
(* int((p / 100.0) * size * size) equals (p * size * size) \div 100 and    *)
(* int(0.6 * size * size) equals (6 * size * size) \div 10.                *)
(***************************************************************************)
SmallImgSize == 14

Pixels(size) == (0..(size - 1)) \X (0..(size - 1))

\* the 3x3 structuring element around p, inside the image
Kernel(p, size) ==
  {q \in ((p[1] - 1)..(p[1] + 1)) \X ((p[2] - 1)..(p[2] + 1)) :
     q[1] >= 0 /\ q[1] < size /\ q[2] >= 0 /\ q[2] < size}

\* cv2.dilate / cv2.erode with np.ones((3, 3)); pixels outside the image are ignored
Dilate(mask, size) == {p \in Pixels(size) : Kernel(p, size) \cap mask # {}}
Erode(mask, size) == {p \in mask : Kernel(p, size) \subseteq mask}

\* cv2.morphologyEx(filled_img, cv2.MORPH_CLOSE, kernel): dilation, then erosion
MorphClose(mask, size) == Erode(Dilate(mask, size), size)

\* filled_img = 1 everywhere, 0 where img > 0
Invert(image, size) == Pixels(size) \ image

\* the 8-connected component of seed in mask
RECURSIVE Grow(_, _, _, _)
Grow(frontier, seen, mask, size) ==
  IF frontier = {} THEN seen
  ELSE LET next == ((UNION {Kernel(p, size) : p \in frontier}) \cap mask) \ seen
       IN Grow(next, seen \cup next, mask, size)

RasterIndex(p, size) == p[1] * size + p[2]
FirstPixel(mask, size) ==
  CHOOSE p \in mask : \A q \in mask : RasterIndex(p, size) <= RasterIndex(q, size)

\* measure.label(filled_img, connectivity=2): labels 1, 2, ... in raster order of the
\* first pixel of each component; the result holds the pixel set of each label
RECURSIVE Label(_, _)
Label(mask, size) ==
  IF mask = {} THEN <<>>
  ELSE LET seed == FirstPixel(mask, size)
           comp == Grow({seed}, {seed}, mask, size)
       IN <<comp>> \o Label(mask \ comp, size)

\* labeled_img[r, c]; 0 on walls
LabelAt(labels, p) ==
  IF \E k \in 1..Len(labels) : p \in labels[k]
  THEN CHOOSE k \in 1..Len(labels) : p \in labels[k]
  ELSE 0

\* the scan of the first and last row only
EdgeLabelsRowsOnly(labels, size) ==
  {k \in 1..Len(labels) :
     \E p \in labels[k] : p[1] = 0 \/ p[1] = size - 1}

\* edge_labels: the labels met on the first and last row and column
EdgeLabels(labels, size) ==
  {k \in 1..Len(labels) :
     \E p \in labels[k] :
       p[1] = 0 \/ p[1] = size - 1 \/ p[2] = 0 \/ p[2] = size - 1}

\* min_room_area_pixels
MinAreaPixels(min_room_area, size) == (min_room_area * size * size) \div 100

\* max_room_area_pixels
MaxAreaPixels(max_room_area, size) ==
  IF max_room_area = None
  THEN (6 * size * size) \div 10
  ELSE (max_room_area[1] * size * size) \div 100

\* the area test with the bounds excluded
AreaRejectedStrict(area, min_pixels, max_pixels) ==
  area <= min_pixels \/ area >= max_pixels

\* filter 1: area < min_room_area_pixels or area > max_room_area_pixels
AreaRejected(area, min_pixels, max_pixels) ==
  area < min_pixels \/ area > max_pixels

\* filter 3: perimeter > 0 and 4 * pi * area / perimeter^2 < 0.03, with pi as 355/113
ShapeRejected(area, perimeter) ==
  /\ perimeter > 0
  /\ 400 * 355 * area < 3 * 113 * perimeter * perimeter

\* filter 4 with the bounds moved outwards by one vertex
VerticesRejectedLoose(n) == n < 2 \/ n > 101

\* filter 4: fewer than 3 or more than 100 vertices
VerticesRejected(n) == n < 3 \/ n > 100

\* prop.perimeter as skimage may report it (0 for a dot, a compact outline, a ragged one)
PerimeterChoices == {0, 8, 400}

\* len(room_poly) after find_contours and simplify_polygon
VertexChoices == {2, 3, 100, 101}

(***************************************************************************)
(* Input images: a blank image, or a rectangular room whose walls are       *)
(* `thick` pixels thick, with the outer corner at (r0, c0), an interior of   *)
(* ih x iw pixels, and a gap of `gap` pixels cut through the top wall; a     *)
(* room placed at the right border is cut off by the image.                  *)
(***************************************************************************)
RoomWalls(s, size) ==
  {p \in Pixels(size) :
     /\ p[1] >= s.r0 /\ p[1] < s.r0 + 2 * s.thick + s.ih
     /\ p[2] >= s.c0 /\ p[2] < s.c0 + 2 * s.thick + s.iw
     /\ ~(/\ p[1] >= s.r0 + s.thick /\ p[1] < s.r0 + s.thick + s.ih
          /\ p[2] >= s.c0 + s.thick /\ p[2] < s.c0 + s.thick + s.iw)
     /\ ~(/\ p[1] < s.r0 + s.thick
          /\ p[2] >= s.c0 + s.thick /\ p[2] < s.c0 + s.thick + s.gap)}

SceneImage(s, size) == IF s.kind = "blank" THEN {} ELSE RoomWalls(s, size)

InteriorPixel(s) == <<s.r0 + s.thick, s.c0 + s.thick>>
InteriorArea(s) == s.ih * s.iw

Scenes(size) ==
  {BlankScene}
  \cup
  [kind : {"room"}, r0 : {1, 2}, c0 : {1, size - 5}, ih : {1, 2, 3}, iw : {1, 2, 3},
   thick : {3}, gap : {0, 1, 2}]

\* a room that lies wholly inside the image, one pixel or more from its border
Enclosed(s, size) ==
  /\ s.kind = "room"
  /\ s.r0 >= 1 /\ s.r0 + 2 * s.thick + s.ih < size
  /\ s.c0 >= 1 /\ s.c0 + 2 * s.thick + s.iw < size

InitRaster ==
  /\ \E size \in {SmallImgSize} :
       /\ scene \in Scenes(size)
       /\ img = SceneImage(scene, size)
       /\ ir_args \in [img_size : {size}, min_room_area : {1, 2, 3, 5},
                       max_room_area : {None, <<2>>, <<5>>}]
  /\ thresholds = [min |-> 0, max |-> 0]
  /\ filled_img = {}
  /\ labeled_img = <<>>
  /\ edge_labels = {}
  /\ prop_i = 0
  /\ raster_rooms = <<>>
  /\ filtered = [area |-> 0, edge |-> 0, shape |-> 0]
  /\ rpc = "start"
  /\ LayersIdle
  /\ PipeIdle
  /\ WallsIdle
  /\ VecIdle

\* lines 1691-1725: the thresholds, then the inverted image
IR_Invert ==
  /\ rpc = "start"
  /\ thresholds' =
       [min |-> MinAreaPixels(ir_args.min_room_area, ir_args.img_size),
        max |-> MaxAreaPixels(ir_args.max_room_area, ir_args.img_size)]
  /\ filled_img' = Invert(img, ir_args.img_size)
  /\ rpc' = "close"
  /\ UNCHANGED <<scene, img, ir_args, labeled_img, edge_labels, prop_i, raster_rooms, filtered>>
  /\ UNCHANGED <<layerVars, pipeVars, wallVars, vecVars>>

\* lines 1734-1735
IR_Close ==
  /\ rpc = "close"
  /\ filled_img' = MorphClose(filled_img, ir_args.img_size)
  /\ rpc' = "label"
  /\ UNCHANGED <<scene, img, ir_args, thresholds, labeled_img, edge_labels, prop_i,
                 raster_rooms, filtered>>
  /\ UNCHANGED <<layerVars, pipeVars, wallVars, vecVars>>

\* lines 1744-1745
IR_Label ==
  /\ rpc = "label"
  /\ labeled_img' = Label(filled_img, ir_args.img_size)
  /\ rpc' = "edges"
  /\ UNCHANGED <<scene, img, ir_args, thresholds, filled_img, edge_labels, prop_i,
                 raster_rooms, filtered>>
  /\ UNCHANGED <<layerVars, pipeVars, wallVars, vecVars>>

\* lines 1758-1768
IR_EdgeLabels ==
  /\ rpc = "edges"
  /\ edge_labels' = EdgeLabels(labeled_img, ir_args.img_size)
  /\ prop_i' = 1
  /\ rpc' = "filter"
  /\ UNCHANGED <<scene, img, ir_args, thresholds, filled_img, labeled_img, raster_rooms,
                 filtered>>
  /\ UNCHANGED <<layerVars, pipeVars, wallVars, vecVars>>

\* lines 1777-1833: one iteration of `for prop in props`
IR_FilterProp ==
  /\ rpc = "filter"
  /\ prop_i <= Len(labeled_img)
  /\ LET label == prop_i
         area == Cardinality(labeled_img[label])
     IN IF AreaRejected(area, thresholds.min, thresholds.max)
        THEN /\ filtered' = [filtered EXCEPT !.area = @ + 1]
             /\ raster_rooms' = raster_rooms
        ELSE IF label \in edge_labels
        THEN /\ filtered' = [filtered EXCEPT !.edge = @ + 1]
             /\ raster_rooms' = raster_rooms
        ELSE \E perimeter \in PerimeterChoices :
               IF ShapeRejected(area, perimeter)
               THEN /\ filtered' = [filtered EXCEPT !.shape = @ + 1]
                    /\ raster_rooms' = raster_rooms
               ELSE \E n \in VertexChoices :
                      IF VerticesRejected(n)
                      THEN /\ filtered' = [filtered EXCEPT !.shape = @ + 1]
                           /\ raster_rooms' = raster_rooms
                      ELSE /\ filtered' = filtered
                           /\ raster_rooms' =
                                Append(raster_rooms,
                                       [src |-> "raster", label |-> label, area |-> area,
                                        vertices |-> n])
  /\ prop_i' = prop_i + 1
  /\ UNCHANGED <<scene, img, ir_args, thresholds, filled_img, labeled_img, edge_labels, rpc>>
  /\ UNCHANGED <<layerVars, pipeVars, wallVars, vecVars>>

\* lines 1835-1839
IR_Return ==
  /\ rpc = "filter"
  /\ prop_i > Len(labeled_img)
  /\ rpc' = "done"
  /\ UNCHANGED <<scene, img, ir_args, thresholds, filled_img, labeled_img, edge_labels,
                 prop_i, raster_rooms, filtered>>
  /\ UNCHANGED <<layerVars, pipeVars, wallVars, vecVars>>

NextRaster ==
  \/ IR_Invert
  \/ IR_Close
  \/ IR_Label
  \/ IR_EdgeLabels
  \/ IR_FilterProp
  \/ IR_Return

SpecRaster == InitRaster /\ [][NextRaster]_vars

ImageBorder(size) ==
  {p \in Pixels(size) : p[1] = 0 \/ p[1] = size - 1 \/ p[2] = 0 \/ p[2] = size - 1}

\* C6: after the closing, a room that is enclosed by walls except for a small gap in
\* one wall is labelled apart from the exterior, and the detector returns exactly
\* one polygon for it (when its area is within the thresholds and no shape test
\* rejects it).
C6_GapSealedByClosing ==
  (Enclosed(scene, ir_args.img_size) /\ scene.gap > 0) =>
     /\ rpc \in {"edges", "filter", "done"} =>
          LabelAt(labeled_img, InteriorPixel(scene)) # LabelAt(labeled_img, <<0, 0>>)
     /\ (/\ rpc = "done"
         /\ ~AreaRejected(InteriorArea(scene), thresholds.min, thresholds.max)
         /\ filtered.shape = 0) => Len(raster_rooms) = 1

\* C7: no returned polygon comes from a component with a pixel in the first or last
\* row or column of the image.
C7_NoRoomTouchesBorder ==
  \A i \in 1..Len(raster_rooms) :
    labeled_img[raster_rooms[i].label] \cap ImageBorder(ir_args.img_size) = {}

\* a component that touches the border only in the last column, with an area inside
\* the thresholds, was dropped by the border filter
C7_Witness ==
  /\ rpc = "done"
  /\ filtered.edge > 0
  /\ \E k \in 1..Len(labeled_img) :
       /\ ~AreaRejected(Cardinality(labeled_img[k]), thresholds.min, thresholds.max)
       /\ labeled_img[k] \cap ImageBorder(ir_args.img_size) # {}
       /\ \A p \in labeled_img[k] : p[1] # 0 /\ p[1] # ir_args.img_size - 1 /\ p[2] # 0

\* C8: in each iteration of the filter loop, a component is counted as rejected on
\* area, and yields no room, exactly when its pixel area is below
\* min_room_area_pixels or above max_room_area_pixels; so an area of min - 1 or of
\* max + 1 is rejected, and an area of exactly min or exactly max (with min <= max)
\* is not rejected on area.
C8_AreaBoundsInclusive ==
  [][(rpc = "filter" /\ prop_i <= Len(labeled_img)) =>
       LET area == Cardinality(labeled_img[prop_i])
           outside == area < thresholds.min \/ area > thresholds.max
           rejected == filtered'.area = filtered.area + 1 /\ raster_rooms' = raster_rooms
           passed == filtered'.area = filtered.area
       IN /\ outside => rejected
          /\ ~outside => passed
          /\ (area = thresholds.min - 1 \/ area = thresholds.max + 1) => rejected
          /\ (thresholds.min <= thresholds.max
                /\ (area = thresholds.min \/ area = thresholds.max)) => passed
     ]_vars

\* a component of exactly min_room_area_pixels or of exactly max_room_area_pixels
\* was kept, and other components were rejected on area
C8_Witness ==
  /\ rpc = "done"
  /\ filtered.area > 0
  /\ \E i \in 1..Len(raster_rooms) :
       raster_rooms[i].area = thresholds.min \/ raster_rooms[i].area = thresholds.max

(***************************************************************************)
(* Drawings                                                                *)
(*                                                                         *)
(* A document is its layer table and the entities of its modelspace, in    *)
(* file order.  A point is <<x, y>>; extents are <<min_x, min_y, max_x,    *)
(* max_y>>.  Python's float('inf') is PosInf, a number above every         *)
(* coordinate of the model.                                                *)
(***************************************************************************)
PosInf == 1000000000
NegInf == -PosInf

DefaultExtents == <<0, 0, 1000, 1000>>

Min(a, b) == IF a <= b THEN a ELSE b
Max(a, b) == IF a >= b THEN a ELSE b
Abs(a) == IF a >= 0 THEN a ELSE -a

Line(layer, start, end) ==
  [type |-> "LINE", layer |-> layer, points |-> <<start, end>>, closed |-> FALSE,
   paths |-> <<>>]
LwPolyline(layer, points, closed) ==
  [type |-> "LWPOLYLINE", layer |-> layer, points |-> points, closed |-> closed,
   paths |-> <<>>]
Hatch(layer, paths) ==
  [type |-> "HATCH", layer |-> layer, points |-> <<>>, closed |-> FALSE, paths |-> paths]
PolylinePath(vertices) == [is_polyline_path |-> TRUE, vertices |-> vertices]

Layer0 == LayerNames[1]
WallLayer == LayerNames[2]
RoomLayer == LayerNames[9]
FurnitureLayer == LayerNames[10]

\* the entities a drawing of the model is made of
EntityPalette ==
  { Line(WallLayer, <<0, 0>>, <<40, 0>>),
    Line(Layer0, <<0, 0>>, <<0, 35>>),
    LwPolyline(WallLayer, << <<0, 0>>, <<0, 30>>, <<40, 30>> >>, FALSE),
    Hatch(WallLayer,
          << PolylinePath(<< <<20, 2>>, <<38, 2>>, <<38, 28>>, <<20, 28>> >>),
             PolylinePath(<< <<2, 2>>, <<18, 2>>, <<18, 28>> >>) >>),
    LwPolyline(RoomLayer, << <<2, 2>>, <<5, 2>>, <<5, 5>>, <<2, 5>> >>, TRUE),
    LwPolyline(RoomLayer, << <<0, 0>>, <<1, 0>>, <<0, 1>> >>, TRUE),
    Hatch(RoomLayer, << PolylinePath(<< <<5, 5>>, <<25, 5>>, <<5, 25>> >>),
                        PolylinePath(<< <<5, 5>>, <<25, 5>> >>) >>),
    Line(FurnitureLayer, <<50, 50>>, <<60, 50>>) }

MaxEntities == 3

Docs == UNION {[1..n -> EntityPalette] : n \in 0..MaxEntities}

\* the layer table of a drawing: layer "0", then the layers of its entities in the
\* order of first use, all on and thawed
RECURSIVE LayerTableOf(_, _, _)
LayerTableOf(entities, i, table) ==
  IF i > Len(entities) THEN table
  ELSE LayerTableOf(entities, i + 1,
         IF \E k \in 1..Len(table) : table[k].name = entities[i].layer
         THEN table
         ELSE Append(table, [name |-> entities[i].layer, is_on |-> TRUE,
                             is_frozen |-> FALSE]))

\* ezdxf.readfile
ReadFile(entities) ==
  [layers |-> LayerTableOf(entities, 1,
                           <<[name |-> Layer0, is_on |-> TRUE, is_frozen |-> FALSE]>>),
   entities |-> entities]

DefaultInfo == [entity_types |-> NoEntities, is_on |-> TRUE, is_frozen |-> FALSE]

\* the second loop of analyze_layers: the histogram of entity types per layer
RECURSIVE CountEntities(_, _, _)
CountEntities(entities, i, L) ==
  IF i > Len(entities) THEN L
  ELSE LET e == entities[i]
           L1 == IF \E k \in 1..Len(L) : L[k].name = e.layer
                 THEN L
                 ELSE Append(L, [name |-> e.layer, info |-> DefaultInfo])
           k == CHOOSE k \in 1..Len(L1) : L1[k].name = e.layer
       IN CountEntities(entities, i + 1,
                        [L1 EXCEPT ![k].info.entity_types[e.type] = @ + 1])

analyze_layers(d) ==
  CountEntities(d.entities, 1,
    [i \in 1..Len(d.layers) |->
       [name |-> d.layers[i].name,
        info |-> [entity_types |-> NoEntities, is_on |-> d.layers[i].is_on,
                  is_frozen |-> d.layers[i].is_frozen]]])

\* clean_layers, when transform.copies succeeds: a new document with layer "0", the
\* kept layers of the table (with default flags, here in table order) and copies of
\* the entities of the kept layers and of layer "0"
clean_layers(d, keep) ==
  LET keep0 == keep \cup {Layer0}
      kept == SelectSeq(d.layers, LAMBDA l : l.name \in keep0 /\ l.name # Layer0)
  IN [layers |-> <<[name |-> Layer0, is_on |-> TRUE, is_frozen |-> FALSE]>>
                 \o [i \in 1..Len(kept) |->
                       [name |-> kept[i].name, is_on |-> TRUE, is_frozen |-> FALSE]],
      entities |-> SelectSeq(d.entities, LAMBDA e : e.layer \in keep0)]

\* preprocess_dwg when nothing raises
preprocess_dwg(d) == clean_layers(d, identify_wall_layers(analyze_layers(d)))

(***************************************************************************)
(* extract_walls_and_rooms                                                 *)
(***************************************************************************)
RECURSIVE Concat(_)
Concat(seqs) == IF seqs = <<>> THEN <<>> ELSE Head(seqs) \o Concat(Tail(seqs))

\* the min/max fold over points, started from (inf, inf, -inf, -inf)
RECURSIVE BoxOfPoints(_, _, _)
BoxOfPoints(pts, i, box) ==
  IF i > Len(pts) THEN box
  ELSE BoxOfPoints(pts, i + 1,
         <<Min(box[1], pts[i][1]), Min(box[2], pts[i][2]),
           Max(box[3], pts[i][1]), Max(box[4], pts[i][2])>>)

EmptyBox == <<PosInf, PosInf, NegInf, NegInf>>

\* get_drawing_extents: only entities with get_points() (LWPOLYLINE) or a vertices
\* list (POLYLINE) count, one count per point; LINE and HATCH have neither
get_drawing_extents(entities) ==
  LET counted == SelectSeq(entities, LAMBDA e : e.type \in {"LWPOLYLINE", "POLYLINE"})
      pts == Concat([i \in 1..Len(counted) |-> counted[i].points])
  IN IF Len(pts) = 0 THEN None ELSE BoxOfPoints(pts, 1, EmptyBox)

\* twice the signed shoelace sum
RECURSIVE Shoelace(_, _)
Shoelace(v, i) ==
  IF i > Len(v) THEN 0
  ELSE LET j == (i % Len(v)) + 1
       IN v[i][1] * v[j][2] - v[j][1] * v[i][2] + Shoelace(v, i + 1)

\* abs(area) / 2.0 >= min_area
is_valid_room(vertices, min_area) ==
  /\ Len(vertices) >= 3
  /\ Abs(Shoelace(vertices, 1)) >= 2 * min_area

\* the room layers as extract_walls_and_rooms recomputes them
IsEwrRoomName == [n \in LayerNameSet |-> AnyIn(ewr_room_keywords, Lower(n))]
EwrRoomLayer(name, info) ==
  \/ IsEwrRoomName[name]
  \/ /\ (HasType(info, "LWPOLYLINE") \/ HasType(info, "POLYLINE") \/ HasType(info, "HATCH"))
     /\ ~info.is_frozen
     /\ RoomRatioTest(info)

EwrRoomLayers(L) == {L[i].name : i \in {k \in 1..Len(L) : EwrRoomLayer(L[k].name, L[k].info)}}

\* a room of the vector source
LayerRoom(points) == [src |-> "layer", points |-> points]

RECURSIVE HatchRooms(_, _, _)
HatchRooms(paths, i, min_area) ==
  IF i > Len(paths) THEN <<>>
  ELSE (IF /\ paths[i].is_polyline_path
           /\ Len(paths[i].vertices) >= 3
           /\ is_valid_room(paths[i].vertices, min_area)
        THEN <<LayerRoom(paths[i].vertices)>>
        ELSE <<>>) \o HatchRooms(paths, i + 1, min_area)

RoomsOfEntity(e, min_area) ==
  IF e.type \in {"LWPOLYLINE", "POLYLINE"}
  THEN IF e.closed /\ Len(e.points) >= 3 /\ is_valid_room(e.points, min_area)
       THEN <<LayerRoom(e.points)>>
       ELSE <<>>
  ELSE IF e.type = "HATCH" THEN HatchRooms(e.paths, 1, min_area)
  ELSE <<>>

\* rooms_from_layers
RoomsFromLayers(entities, room_layers, min_area) ==
  Concat([i \in 1..Len(entities) |->
            IF entities[i].layer \in room_layers
            THEN RoomsOfEntity(entities[i], min_area)
            ELSE <<>>])

\* extents_from_rooms
ExtentsFromRooms(rooms) ==
  IF rooms = <<>> THEN None
  ELSE LET box == BoxOfPoints(Concat([i \in 1..Len(rooms) |-> rooms[i].points]), 1, EmptyBox)
       IN IF box[1] < PosInf /\ box[2] < PosInf /\ box[3] > NegInf /\ box[4] > NegInf
          THEN box
          ELSE None

IsFurnitureName == [n \in LayerNameSet |-> AnyIn(furniture_equipment_keywords, n)]
ExcludeLayers(L) == {L[i].name : i \in {k \in 1..Len(L) : IsFurnitureName[L[k].name]}}

\* Segments without the closing segment of a closed polyline
SegmentsNoClosing(e) ==
  IF e.type = "LINE" THEN << <<e.points[1], e.points[2]>> >>
  ELSE IF Len(e.points) >= 2
  THEN [i \in 1..(Len(e.points) - 1) |-> <<e.points[i], e.points[i + 1]>>]
  ELSE <<>>

\* the segments of one entity; a polyline with fewer than 2 points has none
Segments(e) ==
  IF e.type = "LINE" THEN << <<e.points[1], e.points[2]>> >>
  ELSE IF Len(e.points) >= 2
  THEN [i \in 1..(Len(e.points) - 1) |-> <<e.points[i], e.points[i + 1]>>]
       \o (IF e.closed THEN << <<e.points[Len(e.points)], e.points[1]>> >> ELSE <<>>)
  ELSE <<>>

\* the entities the wall loop appends a list of segments for: LINE, LWPOLYLINE or
\* POLYLINE outside exclude_layers, a polyline only with 2 points or more
WallEntities(entities, exclude_layers) ==
  SelectSeq(entities,
    LAMBDA e : /\ e.type \in {"LINE", "LWPOLYLINE", "POLYLINE"}
               /\ e.layer \notin exclude_layers
               /\ (e.type = "LINE" \/ Len(e.points) >= 2))

\* walls: one list of segments per such entity
Walls(entities, exclude_layers) ==
  LET used == WallEntities(entities, exclude_layers)
  IN [i \in 1..Len(used) |-> Segments(used[i])]

\* the extents convert_walls_to_image returns
WallExtents(walls) == BoxOfPoints(Concat(Concat(walls)), 1, EmptyBox)

MaxRaster == 4

\* a room of the raster source: its label and the length of its room_poly
RasterRoom(j, n) == [src |-> "raster", label |-> j, vertices |-> n]

\* what identify_rooms may return for the image of these walls: nothing for an image
\* without walls (its one component is the whole image), else up to MaxRaster rooms,
\* each with a vertex count that filter 4 lets through (one count for the rooms
\* with an odd label, one for those with an even label)
RasterOutcomes(walls) ==
  IF walls = <<>> THEN {<<>>}
  ELSE LET passing == {n \in VertexChoices : ~VerticesRejected(n)}
       IN {[j \in 1..r |-> RasterRoom(j, IF j % 2 = 1 THEN a ELSE b)] :
             r \in 0..MaxRaster, a \in passing, b \in passing}

\* the raster rooms are added whatever the number of vector rooms
ReconcileNoThreshold(rooms_from_layers, rooms_from_walls) ==
  rooms_from_layers \o rooms_from_walls

\* the raster rooms are added only when there is no vector room
ReconcileOnlyIfEmpty(rooms_from_layers, rooms_from_walls) ==
  IF rooms_from_layers = <<>> THEN rooms_from_walls ELSE rooms_from_layers

\* all_rooms
Reconcile(rooms_from_layers, rooms_from_walls) ==
  LET vector == IF rooms_from_layers # <<>> THEN rooms_from_layers ELSE <<>>
  IN IF Len(vector) < 3 /\ rooms_from_walls # <<>>
     THEN vector \o rooms_from_walls
     ELSE vector

\* the choice with the wall-derived extents first
EwrFinalExtentsWallsFirst(extents_from_rooms, extents_from_walls) ==
  IF extents_from_walls # None THEN extents_from_walls
  ELSE IF extents_from_rooms # None THEN extents_from_rooms
  ELSE DefaultExtents

\* final_extents of extract_walls_and_rooms
EwrFinalExtents(extents_from_rooms, extents_from_walls) ==
  IF extents_from_rooms # None THEN extents_from_rooms
  ELSE IF extents_from_walls # None THEN extents_from_walls
  ELSE DefaultExtents

\* extract_walls_and_rooms(doc, min_room_area, img_size), given what identify_rooms
\* returned
extract_walls_and_rooms(d, min_room_area, img_size, rooms_from_walls) ==
  LET L == analyze_layers(d)
      rooms_from_layers == RoomsFromLayers(d.entities, EwrRoomLayers(L), min_room_area)
      extents_from_rooms == ExtentsFromRooms(rooms_from_layers)
      walls == Walls(d.entities, ExcludeLayers(L))
      extents_from_walls == WallExtents(walls)
      ir == [img_size |-> img_size, min_room_area |-> min_room_area,
             max_room_area |-> None]
  IN [walls |-> walls,
      rooms_from_layers |-> rooms_from_layers,
      extents_from_rooms |-> extents_from_rooms,
      extents_from_walls |-> extents_from_walls,
      rooms_from_walls |-> rooms_from_walls,
      all_rooms |-> Reconcile(rooms_from_layers, rooms_from_walls),
      final_extents |-> EwrFinalExtents(extents_from_rooms, extents_from_walls),
      ir_args |-> ir,
      thresholds |-> [min |-> MinAreaPixels(ir.min_room_area, ir.img_size),
                      max |-> MaxAreaPixels(ir.max_room_area, ir.img_size)],
      keep_layers |-> identify_wall_layers(L)]

\* the choice of extract_rooms_from_dwg between the drawing extents and the extents
\* extract_walls_and_rooms returned
FinalExtents(from_drawing, from_walls) ==
  IF from_drawing # None THEN from_drawing
  ELSE IF from_walls # None THEN from_walls
  ELSE DefaultExtents

(***************************************************************************)
(* The pipeline: main's loop over the drawings and extract_rooms_from_dwg  *)
(*                                                                         *)
(* A drawing file is its extension, its entities, and what goes wrong      *)
(* with it:                                                                 *)
(*   "makedirs"    os.makedirs(output_dir) raises                          *)
(*   "convert"     convert_dwg_to_dxf returns None                         *)
(*   "unreadable"  ezdxf.readfile raises                                   *)
(*   "saveas"      preprocess_dwg cannot save its output and returns None  *)
(* Under Spec one caller calls extract_rooms_from_dwg once, with or        *)
(* without max_room_area; under SpecBatch main runs over a directory.      *)
(***************************************************************************)
DefaultImgSize == 1024
MainImgSize == 2000

MaxFiles == 2

File(ext, fault, entities) == [ext |-> ext, fault |-> fault, entities |-> entities]

\* a few drawings for the runs over several files
DocSamples ==
  { <<>>,
    << Line(WallLayer, <<0, 0>>, <<40, 0>>),
       LwPolyline(WallLayer, << <<0, 0>>, <<0, 30>>, <<40, 30>> >>, FALSE) >> }

FailingFiles ==
  { File("dxf", "makedirs", <<>>), File("dxf", "unreadable", <<>>),
    File("dwg", "convert", <<>>) }

SingleFiles ==
  {File("dxf", fault, entities) : fault \in {"none", "saveas"}, entities \in Docs}
  \cup {File("dwg", "none", entities) : entities \in DocSamples}
  \cup FailingFiles

BatchFiles ==
  {File(ext, "none", entities) : ext \in {"dxf", "dwg"}, entities \in DocSamples}
  \cup FailingFiles

PipeStart ==
  /\ file_i = 1
  /\ pc = "main"
  /\ doc = NoDoc
  /\ ewr = EwrIdle
  /\ extents_from_drawing = None
  /\ final_extents = None
  /\ results = <<>>
  /\ LayersIdle
  /\ RasterIdle
  /\ WallsIdle
  /\ VecIdle

Init ==
  /\ args = NoArgs
  /\ dwg_files \in {<<f>> : f \in SingleFiles}
  /\ call_args \in [img_size : {DefaultImgSize}, min_room_area : {1},
                    max_room_area : {None, <<30>>}]
  /\ PipeStart

InitBatch ==
  /\ args = NoArgs
  /\ dwg_files \in UNION {[1..n -> BatchFiles] : n \in 1..MaxFiles}
  /\ call_args = [img_size |-> MainImgSize, min_room_area |-> 1, max_room_area |-> None]
  /\ PipeStart

\* main with any command line: with --file the run has the one file named
InitMain ==
  /\ args \in [file : BOOLEAN, convert_only : BOOLEAN]
  /\ dwg_files \in UNION {[1..n -> BatchFiles] : n \in 1..MaxFiles}
  /\ args.file => Len(dwg_files) = 1
  /\ call_args = [img_size |-> MainImgSize, min_room_area |-> 1, max_room_area |-> None]
  /\ PipeStart

CurrentFile == dwg_files[file_i]

\* line 2506: `if args.convert_only and dwg_path.lower().endswith('.dwg')`, inside
\* `if args.file`
ConvertOnlyBranch ==
  /\ args.file
  /\ args.convert_only
  /\ CurrentFile.ext = "dwg"

\* what a call hands back to the loop
Returned(rooms, extents) ==
  /\ results' = Append(results, [rooms |-> rooms, extents |-> extents])
  /\ file_i' = file_i + 1
  /\ pc' = "main"
  /\ doc' = NoDoc
  /\ ewr' = EwrIdle
  /\ extents_from_drawing' = None
  /\ final_extents' = None

\* `for dwg_file in dwg_files`: the call of extract_rooms_from_dwg
Main_Call ==
  /\ pc = "main"
  /\ file_i <= Len(dwg_files)
  /\ ~ConvertOnlyBranch
  /\ pc' = "makedirs"
  /\ UNCHANGED <<args, dwg_files, call_args, file_i, doc, ewr, extents_from_drawing,
                 final_extents, results>>
  /\ UNCHANGED <<layerVars, rasterVars, wallVars, vecVars>>

\* lines 360-363, before the try: an exception leaves extract_rooms_from_dwg and
\* the loop of main, which has no handler
ERD_MakeDirs ==
  /\ pc = "makedirs"
  /\ pc' = IF CurrentFile.fault = "makedirs" THEN "aborted" ELSE "convert"
  /\ UNCHANGED <<args, dwg_files, call_args, file_i, doc, ewr, extents_from_drawing,
                 final_extents, results>>
  /\ UNCHANGED <<layerVars, rasterVars, wallVars, vecVars>>

\* ERD_Convert where a failed conversion raises out of the call
ERD_ConvertRaises ==
  /\ pc = "convert"
  /\ pc' = IF CurrentFile.ext = "dwg" /\ CurrentFile.fault = "convert"
            THEN "aborted" ELSE "preprocess"
  /\ UNCHANGED <<file_i, doc, ewr, extents_from_drawing, final_extents, results>>
  /\ UNCHANGED <<args, dwg_files, call_args>>
  /\ UNCHANGED <<layerVars, rasterVars, wallVars, vecVars>>

\* lines 372-386
ERD_Convert ==
  /\ pc = "convert"
  /\ IF CurrentFile.ext = "dwg" /\ CurrentFile.fault = "convert"
     THEN Returned(<<>>, None)
     ELSE /\ pc' = "preprocess"
          /\ UNCHANGED <<file_i, doc, ewr, extents_from_drawing, final_extents, results>>
  /\ UNCHANGED <<args, dwg_files, call_args>>
  /\ UNCHANGED <<layerVars, rasterVars, wallVars, vecVars>>

\* lines 392-402: preprocess_dwg, or the original document when it returns None (it
\* does so for a document without entities, dividing by their number); when the
\* file cannot be read the second readfile raises through the try/finally
ERD_Preprocess ==
  /\ pc = "preprocess"
  /\ IF CurrentFile.fault = "unreadable"
     THEN /\ pc' = "aborted"
          /\ doc' = doc
     ELSE /\ pc' = "extract"
          /\ doc' = IF CurrentFile.fault = "saveas" \/ CurrentFile.entities = <<>>
                    THEN ReadFile(CurrentFile.entities)
                    ELSE preprocess_dwg(ReadFile(CurrentFile.entities))
  /\ UNCHANGED <<args, dwg_files, call_args, file_i, ewr, extents_from_drawing, final_extents,
                 results>>
  /\ UNCHANGED <<layerVars, rasterVars, wallVars, vecVars>>

\* line 405: extract_walls_and_rooms(preprocessed_doc, min_room_area, img_size)
ERD_Extract ==
  /\ pc = "extract"
  /\ \E rooms_from_walls \in
          RasterOutcomes(Walls(doc.entities, ExcludeLayers(analyze_layers(doc)))) :
       ewr' = extract_walls_and_rooms(doc, call_args.min_room_area, call_args.img_size,
                                      rooms_from_walls)
  /\ pc' = "extents"
  /\ UNCHANGED <<args, dwg_files, call_args, file_i, doc, extents_from_drawing, final_extents,
                 results>>
  /\ UNCHANGED <<layerVars, rasterVars, wallVars, vecVars>>

\* lines 408-419
ERD_Extents ==
  /\ pc = "extents"
  /\ extents_from_drawing' = get_drawing_extents(doc.entities)
  /\ final_extents' = FinalExtents(get_drawing_extents(doc.entities), ewr.final_extents)
  /\ pc' = "save"
  /\ UNCHANGED <<args, dwg_files, call_args, file_i, doc, ewr, results>>
  /\ UNCHANGED <<layerVars, rasterVars, wallVars, vecVars>>

\* lines 421-458: the outputs are written (their failures are caught and logged),
\* then `return rooms, final_extents`
ERD_Return ==
  /\ pc = "save"
  /\ Returned(ewr.all_rooms, final_extents)
  /\ UNCHANGED <<args, dwg_files, call_args>>
  /\ UNCHANGED <<layerVars, rasterVars, wallVars, vecVars>>

\* lines 2506-2510: convert_dwg_to_dxf(dwg_path, dxf_path), then `return`
Main_ConvertOnly ==
  /\ pc = "main"
  /\ file_i <= Len(dwg_files)
  /\ ConvertOnlyBranch
  /\ pc' = "finished"
  /\ UNCHANGED <<args, dwg_files, call_args, file_i, doc, ewr, extents_from_drawing,
                 final_extents, results>>
  /\ UNCHANGED <<layerVars, rasterVars, wallVars, vecVars>>

\* line 2533: the loop is over
Main_Finish ==
  /\ pc = "main"
  /\ file_i > Len(dwg_files)
  /\ pc' = "finished"
  /\ UNCHANGED <<args, dwg_files, call_args, file_i, doc, ewr, extents_from_drawing,
                 final_extents, results>>
  /\ UNCHANGED <<layerVars, rasterVars, wallVars, vecVars>>

Next ==
  \/ Main_Call
  \/ ERD_MakeDirs
  \/ ERD_Convert
  \/ ERD_Preprocess
  \/ ERD_Extract
  \/ ERD_Extents
  \/ ERD_Return
  \/ Main_Finish

Spec == Init /\ [][Next]_vars
SpecBatch == InitBatch /\ [][Next]_vars

NextMain ==
  \/ Main_Call
  \/ Main_ConvertOnly
  \/ ERD_MakeDirs
  \/ ERD_Convert
  \/ ERD_Preprocess
  \/ ERD_Extract
  \/ ERD_Extents
  \/ ERD_Return
  \/ Main_Finish

SpecMain == InitMain /\ [][NextMain]_vars

(***************************************************************************)
(* Properties of the pipeline                                              *)
(***************************************************************************)
EwrReturned == pc \in {"extents", "save"}

\* C1: whenever the vector source yields 3 or more rooms, the final room list of
\* extract_walls_and_rooms is exactly those rooms in the same order and holds no
\* raster room, however many rooms the raster source yields.
C1_VectorRoomsSuppressRaster ==
  (EwrReturned /\ Len(ewr.rooms_from_layers) >= 3) =>
     /\ ewr.all_rooms = ewr.rooms_from_layers
     /\ \A i \in 1..Len(ewr.all_rooms) : ewr.all_rooms[i].src = "layer"

\* three or more vector rooms, and more raster rooms than vector rooms
C1_Witness ==
  /\ EwrReturned
  /\ Len(ewr.rooms_from_layers) >= 3
  /\ Len(ewr.rooms_from_walls) > Len(ewr.rooms_from_layers)

\* C2: whenever the vector source yields v < 3 rooms and the raster source r rooms,
\* the final room list is the v vector rooms followed by the r raster rooms, of
\* length v + r: every vector room is included and none is removed as a duplicate.
C2_RasterSupplements ==
  (EwrReturned /\ Len(ewr.rooms_from_layers) < 3) =>
     /\ ewr.all_rooms = ewr.rooms_from_layers \o ewr.rooms_from_walls
     /\ Len(ewr.all_rooms) = Len(ewr.rooms_from_layers) + Len(ewr.rooms_from_walls)

\* two vector rooms with the same outline, and raster rooms after them
C2_Witness ==
  /\ EwrReturned
  /\ Len(ewr.rooms_from_layers) = 2
  /\ ewr.rooms_from_layers[1] = ewr.rooms_from_layers[2]
  /\ Len(ewr.rooms_from_walls) >= 1
  /\ Len(ewr.all_rooms) = 2 + Len(ewr.rooms_from_walls)

C4_EmptyDrawingDefaults ==
  (pc = "save" /\ CurrentFile.entities = <<>>) =>
     /\ ewr.all_rooms = <<>>
     /\ final_extents = DefaultExtents

\* C5: when main runs over several drawings, its loop always reaches its end and
\* every drawing of the list has been processed, whatever exception a drawing
\* raised.
C5_BatchIsolation ==
  pc \in {"finished", "aborted"} =>
     /\ pc = "finished"
     /\ Len(results) = Len(dwg_files)

\* C9: the maximum-area threshold the raster detector applies in a pipeline run is
\* 60% of the image pixels when the caller gives no max_room_area, and
\* max_room_area percent of the image pixels when the caller gives one.
C9_MaxAreaOverride ==
  EwrReturned =>
    ewr.thresholds.max = MaxAreaPixels(call_args.max_room_area, call_args.img_size)

\* the run uses the original document: preprocess_dwg returned None
FallbackRun == CurrentFile.fault = "saveas" \/ CurrentFile.entities = <<>>

\* C18: in every pipeline run, also when preprocessing fails and the original
\* document is used, every entity that gives a list of wall segments is on a
\* layer of the keep-set or on layer "0"; and the document clean_layers returns
\* holds only entities of the layers it was told to keep and of layer "0".
C18_NonKeptLayersSkipped ==
  /\ EwrReturned =>
       LET used == WallEntities(doc.entities, ExcludeLayers(analyze_layers(doc)))
       IN \A i \in 1..Len(used) : used[i].layer \in ewr.keep_layers \cup {Layer0}
  /\ (pc = "extract" /\ ~FallbackRun) =>
       LET original == ReadFile(CurrentFile.entities)
           keep == identify_wall_layers(analyze_layers(original))
       IN \A i \in 1..Len(doc.entities) : doc.entities[i].layer \in keep \cup {Layer0}

(***************************************************************************)
(* Wall extraction, entity by entity: the wall loop of                     *)
(* extract_walls_and_rooms (extract_skeleton.py) and the conversion of the *)
(* wall entities by entity_to_lines (extract_skeleton_1.py, and the same   *)
(* code in extract_skeleton_2.py).  An item of the loop is an entity and  *)
(* whether reading its geometry raises.  A LineString is written as the    *)
(* list of segments between its consecutive coordinates.                   *)
(***************************************************************************)
MaxVertices == 3
MaxWallEntities == 2

Polyline(layer, points, closed) ==
  [type |-> "POLYLINE", layer |-> layer, points |-> points, closed |-> closed,
   paths |-> <<>>]

\* n distinct points, no three of them on a line
Points(n) == [k \in 1..n |-> <<k, k * k>>]

WallLoopEntities ==
  {Line(WallLayer, <<0, 0>>, <<4, 0>>), Line(FurnitureLayer, <<5, 5>>, <<6, 5>>)}
  \cup {LwPolyline(WallLayer, Points(n), c) : n \in 0..MaxVertices, c \in BOOLEAN}
  \cup {Polyline(WallLayer, Points(MaxVertices), c) : c \in BOOLEAN}

WallLoopItems == [ent : WallLoopEntities, raises : BOOLEAN]

Programs == {"extract_skeleton", "extract_skeleton_1"}

\* what one entity adds to walls in extract_walls_and_rooms when nothing raises
EwrWallsOf(e) ==
  IF IsFurnitureName[e.layer] \/ Segments(e) = <<>> THEN <<>> ELSE <<Segments(e)>>

\* entity_to_lines: LineString([a, b]) or LineString(pts), else None; the closed
\* flag is not read
entity_to_lines(e) ==
  IF e.type = "LINE" THEN << <<e.points[1], e.points[2]>> >>
  ELSE IF Len(e.points) >= 2
  THEN [i \in 1..(Len(e.points) - 1) |-> <<e.points[i], e.points[i + 1]>>]
  ELSE None

\* what one entity adds to wall_lines in remove_doors_from_walls: `if l`
WallLinesOf(e) == IF entity_to_lines(e) = None THEN <<>> ELSE <<entity_to_lines(e)>>

\* query_walls_and_doors: 'wall' in layer or '墙' in layer, on the lower-cased name
IsVectorWall ==
  [n \in LayerNameSet |->
     Contains(<<"w", "a", "l", "l">>, Lower(n)) \/ Contains(<<"u5899">>, Lower(n))]

InitWalls ==
  /\ wq_program \in Programs
  /\ \E n \in 0..MaxWallEntities : wq_entities \in [1..n -> WallLoopItems]
  /\ wq_i = 1
  /\ wq_walls = <<>>
  /\ wq_pc = IF wq_program = "extract_skeleton" THEN "loop" ELSE "query"
  /\ cwi = None
  /\ LayersIdle
  /\ RasterIdle
  /\ PipeIdle
  /\ VecIdle

\* extract_skeleton.py lines 1548-1595: one pass of the loop body; an exception is
\* caught and logged by the handler of this pass
EWR_WallStep ==
  /\ wq_program = "extract_skeleton"
  /\ wq_pc = "loop"
  /\ wq_i <= Len(wq_entities)
  /\ wq_walls' = IF wq_entities[wq_i].raises /\ ~IsFurnitureName[wq_entities[wq_i].ent.layer]
                  THEN wq_walls
                  ELSE wq_walls \o EwrWallsOf(wq_entities[wq_i].ent)
  /\ wq_i' = wq_i + 1
  /\ UNCHANGED <<wq_program, wq_entities, wq_pc, cwi>>
  /\ UNCHANGED <<layerVars, rasterVars, pipeVars, vecVars>>

\* extract_skeleton_1.py lines 33-50: the wall entities
ETL_Query ==
  /\ wq_program = "extract_skeleton_1"
  /\ wq_pc = "query"
  /\ wq_entities' = SelectSeq(wq_entities, LAMBDA it : IsVectorWall[it.ent.layer])
  /\ wq_pc' = "loop"
  /\ UNCHANGED <<wq_program, wq_i, wq_walls, cwi>>
  /\ UNCHANGED <<layerVars, rasterVars, pipeVars, vecVars>>

\* extract_skeleton_1.py line 81: one call of entity_to_lines; an exception leaves
\* remove_doors_from_walls and main, neither of which has a handler
ETL_Step ==
  /\ wq_program = "extract_skeleton_1"
  /\ wq_pc = "loop"
  /\ wq_i <= Len(wq_entities)
  /\ IF wq_entities[wq_i].raises
     THEN /\ wq_pc' = "aborted"
          /\ UNCHANGED <<wq_i, wq_walls>>
     ELSE /\ wq_walls' = wq_walls \o WallLinesOf(wq_entities[wq_i].ent)
          /\ wq_i' = wq_i + 1
          /\ wq_pc' = wq_pc
  /\ UNCHANGED <<wq_program, wq_entities, cwi>>
  /\ UNCHANGED <<layerVars, rasterVars, pipeVars, vecVars>>

\* the loop is over
WQ_Finish ==
  /\ wq_pc = "loop"
  /\ wq_i > Len(wq_entities)
  /\ wq_pc' = "done"
  /\ UNCHANGED <<wq_program, wq_entities, wq_i, wq_walls, cwi>>
  /\ UNCHANGED <<layerVars, rasterVars, pipeVars, vecVars>>

\* the image sizes of the model: a small one, the default of
\* extract_rooms_from_dwg and the default of main
ImgSizes == {SmallImgSize, DefaultImgSize, MainImgSize}

\* ToPixel without the subtraction of the minimum
ToPixelNoOffset(c, min, max, size) ==
  IF max = min THEN 0 ELSE (c * (size - 1)) \div (max - min)

\* int((c - min) / (max - min + 1e-10) * (img_size - 1)) for integers c, min, max
\* with min <= c <= max: a zero span gives 0 / 1e-10 = 0; otherwise the quotient is
\* a little less than (c - min) / (max - min), so that a product that would be a
\* whole number k > 0 comes out just below k and int() gives k - 1
ToPixel(c, min, max, size) ==
  IF max = min THEN 0
  ELSE LET num == (c - min) * (size - 1)
           span == max - min
       IN IF num > 0 /\ num % span = 0 THEN (num \div span) - 1 ELSE num \div span

\* the start and the end of cv2.line for one segment
PixelsOf(segment, extents, size) ==
  [k \in 1..2 |-> <<ToPixel(segment[k][1], extents[1], extents[3], size),
                    ToPixel(segment[k][2], extents[2], extents[4], size)>>]

\* convert_walls_to_image(walls, img_size): the extents and, in the order of the
\* two nested loops, the lines drawn
convert_walls_to_image(walls, img_size) ==
  LET segments == Concat(walls)
      extents == WallExtents(walls)
  IN [img_size |-> img_size,
      extents |-> extents,
      lines |-> [i \in 1..Len(segments) |-> PixelsOf(segments[i], extents, img_size)]]

\* extract_skeleton.py line 1599: the walls are drawn
CWI_Convert ==
  /\ wq_program = "extract_skeleton"
  /\ wq_pc = "done"
  /\ \E img_size \in ImgSizes : cwi' = convert_walls_to_image(wq_walls, img_size)
  /\ wq_pc' = "drawn"
  /\ UNCHANGED <<wq_program, wq_entities, wq_i, wq_walls>>
  /\ UNCHANGED <<layerVars, rasterVars, pipeVars, vecVars>>

NextWalls ==
  \/ EWR_WallStep
  \/ ETL_Query
  \/ ETL_Step
  \/ WQ_Finish
  \/ CWI_Convert

SpecWalls == InitWalls /\ [][NextWalls]_vars

\* C19: when reading the geometry of an entity raises, the extraction of wall
\* segments does not abort, the entity adds nothing, and every other entity,
\* before and after it, adds exactly what it adds alone.
C19_PerEntityIsolation ==
  /\ wq_pc # "aborted"
  /\ wq_pc \in {"loop", "done"} =>
       wq_walls =
         Concat([i \in 1..(wq_i - 1) |->
                   IF wq_entities[i].raises THEN <<>>
                   ELSE IF wq_program = "extract_skeleton"
                   THEN EwrWallsOf(wq_entities[i].ent)
                   ELSE WallLinesOf(wq_entities[i].ent)])

\* C20: in the wall loop of extract_walls_and_rooms a polyline with n >= 2
\* vertices gives the n - 1 segments between consecutive vertices, in order, and
\* when it is closed one more segment from the last vertex to the first; a
\* polyline with fewer than 2 vertices gives nothing; a line gives the one
\* segment (start, end).
C20_PolylineToSegments ==
  (wq_program = "extract_skeleton" /\ wq_pc \in {"loop", "done"}) =>
    wq_walls =
      Concat([i \in 1..(wq_i - 1) |->
                LET e == wq_entities[i].ent
                    p == e.points
                    n == Len(p)
                IN IF wq_entities[i].raises \/ IsFurnitureName[e.layer] THEN <<>>
                   ELSE IF e.type = "LINE" THEN << << <<p[1], p[2]>> >> >>
                   ELSE IF n < 2 THEN <<>>
                   ELSE << [k \in 1..(IF e.closed THEN n ELSE n - 1) |->
                              IF k < n THEN <<p[k], p[k + 1]>> ELSE <<p[n], p[1]>>] >>])

\* the loop has gone over a closed polyline with 3 vertices or more and over a
\* polyline with fewer than 2 vertices, and has built one list of segments
C20_Witness ==
  /\ wq_program = "extract_skeleton"
  /\ wq_pc = "done"
  /\ \E i \in 1..Len(wq_entities) :
       /\ ~wq_entities[i].raises
       /\ wq_entities[i].ent.type = "LWPOLYLINE"
       /\ wq_entities[i].ent.closed
       /\ Len(wq_entities[i].ent.points) >= 3
  /\ \E i \in 1..Len(wq_entities) :
       /\ ~wq_entities[i].raises
       /\ wq_entities[i].ent.type = "LWPOLYLINE"
       /\ Len(wq_entities[i].ent.points) < 2
  /\ Len(wq_walls) = 1

\* C27: for every layer mapping the room layers extract_walls_and_rooms recomputes
\* are the room layers identify_wall_layers found; a text layer is in neither.
C27_RoomLayerSetsAgree ==
  lpc = "done" =>
    /\ EwrRoomLayers(layers_info) = ListSet(cls.room_layers)
    /\ \A n \in TableNames :
         IsText[n] => n \notin EwrRoomLayers(layers_info) /\ ~InList(n, cls.room_layers)

\* convert_dwg_to_dxf returns None for this file
ConversionFails(f) == f.ext = "dwg" /\ f.fault = "convert"

\* C23: when convert_dwg_to_dxf returns None for a .dwg file, the call of
\* extract_rooms_from_dwg for it never parses, detects or writes and never
\* raises, it returns an empty room list and no extents, and the loop of main
\* goes on to the next file.
C23_ConversionFailureLocal ==
  \A i \in 1..Len(dwg_files) :
    ConversionFails(dwg_files[i]) =>
      /\ file_i = i => pc \in {"main", "makedirs", "convert"}
      /\ i <= Len(results) => results[i] = [rooms |-> <<>>, extents |-> None]
      /\ file_i > i => Len(results) >= i

\* a run over two files has finished: the conversion of the first failed, the
\* second was processed after it
C23_Witness ==
  /\ pc = "finished"
  /\ Len(dwg_files) = 2
  /\ ConversionFails(dwg_files[1])
  /\ dwg_files[2].fault = "none"
  /\ dwg_files[2].entities # <<>>
  /\ Len(results) = 2

\* the number of vertices of a room of either source
VertexCount(room) == IF room.src = "layer" THEN Len(room.points) ELSE room.vertices

\* C24: every polygon identify_rooms returns has at least 3 and at most 100
\* vertices, and every room of the final list of extract_walls_and_rooms, from
\* either source, has at least 3 vertices.
C24_VertexCountBounds ==
  EwrReturned =>
    /\ \A i \in 1..Len(ewr.rooms_from_walls) :
         /\ ewr.rooms_from_walls[i].vertices >= 3
         /\ ewr.rooms_from_walls[i].vertices <= 100
    /\ \A i \in 1..Len(ewr.all_rooms) : VertexCount(ewr.all_rooms[i]) >= 3

\* the final list holds a vector room of exactly 3 vertices, a raster room of
\* exactly 3 vertices and a raster room of exactly 100 vertices
C24_Witness ==
  /\ EwrReturned
  /\ \E i \in 1..Len(ewr.all_rooms) :
       ewr.all_rooms[i].src = "layer" /\ VertexCount(ewr.all_rooms[i]) = 3
  /\ \E i \in 1..Len(ewr.all_rooms) :
       ewr.all_rooms[i].src = "raster" /\ VertexCount(ewr.all_rooms[i]) = 3
  /\ \E i \in 1..Len(ewr.all_rooms) :
       ewr.all_rooms[i].src = "raster" /\ VertexCount(ewr.all_rooms[i]) = 100

(***************************************************************************)
(* The minimum room area of the two sources                                *)
(***************************************************************************)
\* (max_x - min_x) * (max_y - min_y) of identify_rooms, for the extents it is given
TotalArea(extents) == (extents[3] - extents[1]) * (extents[4] - extents[2])

\* C28: a closed polygon of a room layer is accepted only if its shoelace area is at
\* least min_room_area percent of the area of the drawing, the area the raster
\* detector takes its percentage of
C28_LayerRoomAreaIsPercentage ==
  (EwrReturned /\ ewr.walls # <<>>) =>
    \A i \in 1..Len(ewr.rooms_from_layers) :
       100 * Abs(Shoelace(ewr.rooms_from_layers[i].points, 1))
         >= 2 * call_args.min_room_area * TotalArea(ewr.extents_from_walls)

(***************************************************************************)
(* The final extents and the geometry of the result                        *)
(***************************************************************************)
InExtents(p, extents) ==
  /\ extents[1] <= p[1] /\ p[1] <= extents[3]
  /\ extents[2] <= p[2] /\ p[2] <= extents[4]

\* C30: the final extents of a drawing contain every endpoint of its wall segments
\* and every vertex of its rooms of the room layers.
C30_FinalExtentsBoundGeometry ==
  pc = "save" =>
     /\ \A i \in 1..Len(ewr.walls) : \A k \in 1..Len(ewr.walls[i]) :
           /\ InExtents(ewr.walls[i][k][1], final_extents)
           /\ InExtents(ewr.walls[i][k][2], final_extents)
     /\ \A i \in 1..Len(ewr.rooms_from_layers) :
           \A k \in 1..Len(ewr.rooms_from_layers[i].points) :
              InExtents(ewr.rooms_from_layers[i].points[k], final_extents)

(***************************************************************************)
(* The command line of main                                                *)
(***************************************************************************)
\* C29: when main is run with --convert-only, extract_rooms_from_dwg is never
\* called, whether the run is over one file or over the directory: main is always
\* before its loop or at its end.
C29_ConvertOnlyNeverExtracts ==
  args.convert_only => pc \in {"main", "finished"}

(***************************************************************************)
(* The mapping of the rasterizer                                           *)
(***************************************************************************)
\* C25: for a non-empty set of wall segments and any image size, each coordinate
\* of each segment endpoint is mapped to a pixel in 0 .. img_size - 1, the smallest
\* coordinate of an axis to pixel 0, and an axis on which all endpoints agree
\* to pixel 0 throughout.
C25_PixelsInRange ==
  (wq_pc = "drawn" /\ wq_walls # <<>>) =>
    LET segments == Concat(wq_walls)
        xs == {segments[i][k][1] : i \in 1..Len(segments), k \in 1..2}
        ys == {segments[i][k][2] : i \in 1..Len(segments), k \in 1..2}
    IN /\ Len(cwi.lines) = Len(segments)
       /\ \A i \in 1..Len(segments) : \A k \in 1..2 :
            LET p == segments[i][k]
                px == cwi.lines[i][k]
            IN /\ px[1] \in 0..(cwi.img_size - 1)
               /\ px[2] \in 0..(cwi.img_size - 1)
               /\ (\A x \in xs : p[1] <= x) => px[1] = 0
               /\ (\A y \in ys : p[2] <= y) => px[2] = 0
               /\ Cardinality(xs) = 1 => px[1] = 0
               /\ Cardinality(ys) = 1 => px[2] = 0

\* walls that lie on one horizontal line have been drawn: the y axis has a zero
\* span, the x axis has not, and the far end of a line is not at pixel 0
C25_Witness ==
  /\ wq_pc = "drawn"
  /\ wq_walls # <<>>
  /\ cwi.extents[2] = cwi.extents[4]
  /\ cwi.extents[1] < cwi.extents[3]
  /\ \E i \in 1..Len(cwi.lines) : cwi.lines[i][2][1] > 0 /\ cwi.lines[i][2][2] = 0

(***************************************************************************)
(* The vector programs: remove_doors_from_walls and associate_walls        *)
(*                                                                         *)
(* The lines are LINE entities along the lines of an integer grid.  A      *)
(* geometry of shapely, LineString or MultiLineString, is the set of the   *)
(* unit steps of the grid it covers; its parts are its maximal runs.  A    *)
(* door lies on the line of the wall it cuts, or it meets a wall at an     *)
(* end of the wall only.                                                   *)
(***************************************************************************)
Side == 3
MaxDoors == 2

HEdge(x, y) == <<<<x, y>>, <<x + 1, y>>>>
VEdge(x, y) == <<<<x, y>>, <<x, y + 1>>>>

\* LineString([a, b]) of entity_to_lines for a LINE from a to b
LineString(a, b) ==
  IF a[2] = b[2]
  THEN {HEdge(x, a[2]) : x \in Min(a[1], b[1])..(Max(a[1], b[1]) - 1)}
  ELSE {VEdge(a[1], y) : y \in Min(a[2], b[2])..(Max(a[2], b[2]) - 1)}

\* the walls: the four sides of a square and a partition across it
WallPalette ==
  << LineString(<<0, 0>>, <<Side, 0>>),
     LineString(<<Side, 0>>, <<Side, Side>>),
     LineString(<<Side, Side>>, <<0, Side>>),
     LineString(<<0, Side>>, <<0, 0>>),
     LineString(<<1, 0>>, <<1, Side>>) >>

\* the doors: at the start of the first side, in the middle of the second, along
\* the third up to its end, over the whole of the fourth, and away from every wall
DoorPalette ==
  { LineString(<<0, 0>>, <<1, 0>>),
    LineString(<<Side, 1>>, <<Side, 2>>),
    LineString(<<1, Side>>, <<Side, Side>>),
    LineString(<<0, 0>>, <<0, Side>>),
    LineString(<<0, Side + 1>>, <<1, Side + 1>>) }

PointsOf(g) == {e[k] : e \in g, k \in 1..2}

\* geom.intersects(d): the two have a point in common
intersects(g, d) == PointsOf(g) \cap PointsOf(d) # {}

\* a difference that takes nothing away
differenceNothing(g, d) == g

\* geom.difference(d)
difference(g, d) == g \ d

is_empty(g) == g = {}

\* the place of a unit step on its grid line
Pos(e) == e[1][1] + e[1][2]

\* the part of g that holds e
PartOf(g, e) ==
  {f \in g : \A k \in Min(Pos(e), Pos(f))..Max(Pos(e), Pos(f)) : \E h \in g : Pos(h) = k}

\* list(geom.geoms), along the line
RECURSIVE Geoms(_)
Geoms(g) ==
  IF g = {} THEN <<>>
  ELSE LET first == CHOOSE e \in g : \A f \in g : Pos(e) <= Pos(f)
       IN <<PartOf(g, first)>> \o Geoms(g \ PartOf(g, first))

geom_type(g) == IF Len(Geoms(g)) = 1 THEN "LineString" ELSE "MultiLineString"

\* unary_union(wall_lines): all the lines, noded and dissolved
unary_union(lines) == UNION {lines[i] : i \in 1..Len(lines)}

\* the unit squares of the grid and the four steps around one
Cells == (0..(Side - 1)) \X (0..(Side - 1))
CellEdges(c) ==
  {HEdge(c[1], c[2]), HEdge(c[1], c[2] + 1), VEdge(c[1], c[2]), VEdge(c[1] + 1, c[2])}

\* no step between two squares is ever taken as a line
OpenAlways(c, d, edges) == CellEdges(c) \cap CellEdges(d) # {}

\* two squares side by side with no line between them
Open(c, d, edges) ==
  /\ CellEdges(c) \cap CellEdges(d) # {}
  /\ CellEdges(c) \cap CellEdges(d) \cap edges = {}

\* the squares reached from the squares of `from` without crossing a line
RECURSIVE Flood(_, _)
Flood(from, edges) ==
  LET more == {d \in Cells \ from : \E c \in from : Open(c, d, edges)}
  IN IF more = {} THEN from ELSE Flood(from \cup more, edges)

\* the steps on the rim of the grid
Rim ==
  {HEdge(x, y) : x \in 0..(Side - 1), y \in {0, Side}}
  \cup {VEdge(x, y) : x \in {0, Side}, y \in 0..(Side - 1)}

\* the squares that are not shut off from the outside of the grid
Exterior(edges) ==
  Flood({c \in Cells : (CellEdges(c) \cap Rim) \ edges # {}}, edges)

\* polygonize(unioned): the faces that the lines shut in, each the set of its squares
polygonize(edges) ==
  {Flood({c}, edges) : c \in Cells \ Exterior(edges)}

InitVector ==
  /\ \E S \in SUBSET {WallPalette[i] : i \in 1..Len(WallPalette)} :
        wall_lines = SelectSeq(WallPalette, LAMBDA w : w \in S)
  /\ \E n \in 0..MaxDoors : door_lines \in [1..n -> DoorPalette]
  /\ w_i = 1
  /\ d_i = 1
  /\ geom = {}
  /\ result = <<>>
  /\ unioned = {}
  /\ polys = {}
  /\ vpc = "walls"
  /\ LayersIdle
  /\ RasterIdle
  /\ PipeIdle
  /\ WallsIdle

\* extract_skeleton_1.py lines 87-88: `for w in wall_lines: geom = w`
RD_Wall ==
  /\ vpc = "walls"
  /\ w_i <= Len(wall_lines)
  /\ geom' = wall_lines[w_i]
  /\ d_i' = 1
  /\ vpc' = "doors"
  /\ UNCHANGED <<wall_lines, door_lines, w_i, result, unioned, polys>>
  /\ UNCHANGED <<layerVars, rasterVars, pipeVars, wallVars>>

\* lines 89-93: one door; an empty geom ends the loop over the doors
RD_Door ==
  /\ vpc = "doors"
  /\ d_i <= Len(door_lines)
  /\ IF intersects(geom, door_lines[d_i])
     THEN /\ geom' = difference(geom, door_lines[d_i])
          /\ IF is_empty(difference(geom, door_lines[d_i]))
             THEN vpc' = "collect" /\ d_i' = d_i
             ELSE vpc' = vpc /\ d_i' = d_i + 1
     ELSE /\ geom' = geom
          /\ vpc' = vpc
          /\ d_i' = d_i + 1
  /\ UNCHANGED <<wall_lines, door_lines, w_i, result, unioned, polys>>
  /\ UNCHANGED <<layerVars, rasterVars, pipeVars, wallVars>>

\* lines 94-100: what is left of the wall is collected
RD_Collect ==
  /\ \/ vpc = "collect"
     \/ vpc = "doors" /\ d_i > Len(door_lines)
  /\ result' = IF is_empty(geom) THEN result
               ELSE IF geom_type(geom) = "LineString" THEN Append(result, geom)
               ELSE result \o Geoms(geom)
  /\ w_i' = w_i + 1
  /\ vpc' = "walls"
  /\ UNCHANGED <<wall_lines, door_lines, d_i, geom, unioned, polys>>
  /\ UNCHANGED <<layerVars, rasterVars, pipeVars, wallVars>>

\* lines 105-113, called by main with the result of remove_doors_from_walls
AW_Associate ==
  /\ vpc = "walls"
  /\ w_i > Len(wall_lines)
  /\ unioned' = unary_union(result)
  /\ polys' = polygonize(unary_union(result))
  /\ vpc' = "done"
  /\ UNCHANGED <<wall_lines, door_lines, w_i, d_i, geom, result>>
  /\ UNCHANGED <<layerVars, rasterVars, pipeVars, wallVars>>

NextVector ==
  \/ RD_Wall
  \/ RD_Door
  \/ RD_Collect
  \/ AW_Associate

SpecVector == InitVector /\ [][NextVector]_vars

\* what the doors that meet the line w leave of it
Residue(w) ==
  w \ UNION {door_lines[j] : j \in {k \in 1..Len(door_lines) :
                                      PointsOf(w) \cap PointsOf(door_lines[k]) # {}}}

\* a non-empty run of unit steps without a gap
IsRun(part) ==
  /\ part # {}
  /\ \A e \in part : \A f \in part :
        \A k \in Min(Pos(e), Pos(f))..Max(Pos(e), Pos(f)) : \E h \in part : Pos(h) = k

\* C21: remove_doors_from_walls returns, for each wall line, the parts of it that
\* no door meeting it covers: no returned line is empty; each returned line is one
\* whole part of what is left of one wall, and the parts are returned once each and
\* all of them; a wall that meets no door is returned as it is, and a wall that the
\* doors cover leaves nothing.
C21_DoorSubtraction ==
  vpc \in {"walls", "done"} =>
    LET done == 1..(w_i - 1)
        lines == 1..Len(result)
    IN /\ \A k \in lines : result[k] # {}
       /\ \A k \in lines : \E i \in done :
             /\ result[k] \subseteq Residue(wall_lines[i])
             /\ IsRun(result[k])
             /\ \A e \in Residue(wall_lines[i]) \ result[k] : \A f \in result[k] :
                   {e[1], e[2]} \cap {f[1], f[2]} = {}
       /\ \A k \in lines : \A l \in lines : k # l => result[k] \cap result[l] = {}
       /\ UNION {result[k] : k \in lines} = UNION {Residue(wall_lines[i]) : i \in done}
       /\ \A i \in done :
             /\ (\A j \in 1..Len(door_lines) :
                    PointsOf(wall_lines[i]) \cap PointsOf(door_lines[j]) = {})
                => \E k \in lines : result[k] = wall_lines[i]
             /\ wall_lines[i] \subseteq UNION {door_lines[j] : j \in 1..Len(door_lines)}
                => \A k \in lines : result[k] \cap wall_lines[i] = {}

\* the walls have been gone over: one was cut in its middle and left two lines,
\* one was covered by a door and left nothing, one met no door and is returned
\* as it was
C21_Witness ==
  /\ vpc = "done"
  /\ \E i \in 1..Len(wall_lines) :
        /\ \E k \in 1..Len(result) : \E l \in 1..Len(result) :
              /\ k # l
              /\ result[k] \cup result[l] = Residue(wall_lines[i])
              /\ result[k] \cup result[l] # wall_lines[i]
  /\ \E i \in 1..Len(wall_lines) : Residue(wall_lines[i]) = {}
  /\ \E i \in 1..Len(wall_lines) : \E k \in 1..Len(result) :
        /\ result[k] = wall_lines[i]
        /\ \A j \in 1..Len(door_lines) :
              PointsOf(wall_lines[i]) \cap PointsOf(door_lines[j]) = {}

\* a graph without the steps that end in a point no other step ends in, again and
\* again: what is left is empty exactly if the graph has no closed cycle
RECURSIVE Prune(_)
Prune(edges) ==
  LET loose == {e \in edges : \E k \in 1..2 :
                   \A f \in edges \ {e} : e[k] \notin {f[1], f[2]}}
  IN IF loose = {} THEN edges ELSE Prune(edges \ loose)

\* the steps that have a square of the face on one side only
Boundary(face) ==
  {e \in UNION {CellEdges(c) : c \in face} :
      Cardinality({c \in face : e \in CellEdges(c)}) = 1}

====
